---- MODULE Spec2Model ----
(***************************************************************************)
(* Incremental extraction engine of the Instagram source connector:        *)
(*   - the per-account watermark store and its filter (UserInsights),      *)
(*   - cursor pagination driven by the consumer's pulls,                   *)
(*   - the retry policy wrapped around provider calls,                     *)
(*   - the call-rate governor of the governed API client,                  *)
(*   - record shaping: URL sanitization, the merge of metric entries,      *)
(*   - the insight streams of media and stories,                           *)
(*   - account discovery, the watermark snapshot, Media and Stories,       *)
(* and, of the Square connector, the page-by-page read of its streams,     *)
(* the state of its incremental streams and the connection check.          *)
(* Several specifications share the module: SpecWatermark, SpecRuns,       *)
(* SpecFetch, SpecParse, SpecUrl, SpecMerge, SpecInsights, SpecAccounts,   *)
(* SpecSquare, SpecSnapshot, SpecMedia, SpecSquareState and SpecCheck.     *)
(* Each one moves its own group of variables and leaves the other groups   *)
(* at their initial values.                                                *)
(***************************************************************************)
EXTENDS Integers, Sequences, FiniteSets, TLC

VARIABLES
    \* ---- UserInsights (watermark store) ----
    state,                \* self._state: account id -> datetime (a partial map)
    ui_pc,                \* position of UserInsights.list: "init", "account", "windows", "done"
    account_idx,          \* index of the account the for-loop of list() is at
    buffered_start_date,  \* the window start of _params()
    start_date,           \* self._api._start_date, the configured start-date floor
    lastFilter,           \* the call of state_filter made by the step just taken, or None
    provider,             \* the insight data the provider holds
    run,                  \* 1 for the first run, 2 for the run after a restart
    seen,                 \* the accounts the provider returned insight data for in this run
    fresh,                \* the accounts that had no stored watermark when list() came to them
    lastWindow,           \* the window of the step just taken: its requests, merges, filter calls
    run_start,            \* the watermarks the run started with (the restored checkpoint)
    last_emitted,         \* per account, the cursor of the record list() yielded last in this run
    \* ---- pagination, retry policy, governed client ----
    pages,                \* what the provider holds: a sequence of pages, each a sequence of items
    loaded,               \* number of pages the Cursor has loaded
    queue,                \* instance._queue
    finished,             \* instance._finished_iteration
    qpos,                 \* number of items of queue the 'yield from' has delivered
    pg_pc,                \* position of the generator pagination()
    consumed,             \* the items the consumer has received, in order
    outer_tries,          \* attempt the wrapped stream method (load_next_page, get_instance_cursor) is at
    inner_tries,          \* failed attempts of MyFacebookAdsApi.call inside the current outer attempt
    backoffs,             \* backoff sleeps of the retry policy during the current fetch
    transport_calls,      \* calls of the underlying transport during the current fetch
    lastAttempt,          \* the transport call of the step just taken: outcome, rate-limit check, sleep
    lastCall,             \* how MyFacebookAdsApi.call ended in the step just taken, if it did
    \* ---- parse_call_rate_header as a pure function ----
    headers,              \* the response headers handed to parse_call_rate_header
    parsed,               \* what it returned, once it was called
    \* ---- record shaping: URL sanitization ----
    url_orig,             \* the record as the provider delivered it
    url_record,           \* record_data, as clear_url / _clear_url left it
    url_first,            \* record_data after the first sanitization
    url_steps,            \* how many times the record was sanitized
    url_raised,           \* TRUE once a sanitization raised
    url_impl,             \* which of the two implementations is in use
    \* ---- record shaping: the merge of metric entries ----
    merge_list,           \* insight_list: the metric entries of one window
    merge_record,         \* insight_record built from them, once it was built
    \* ---- MediaInsights / StoriesInsights ----
    ins_stream,           \* which stream is read: "media" or "stories"
    ins_impl,             \* whose list() runs: "streams" (streams.py) or "client" (client/api.py)
    ins_items,            \* what the provider holds: per account, the media_type of each item
    ins_acct,             \* index of the account list() is at
    ins_idx,              \* index of the item list() is at, within the account
    ins_pc,               \* position of list(): "list", "done", "failed"
    ins_tries,            \* failed attempts of _get_insights for the current item
    ins_backoffs,         \* backoff sleeps of the retry policy for the current item
    ins_emitted,          \* the records list() has yielded, as <<account, item>>, in order
    lastInsight,          \* the attempt of _get_insights made by the step just taken
    \* ---- InstagramAPI: discovery of the accounts ----
    acc_pages,            \* the provider's pages of the user: has the page a business account
    acc_pc,               \* position: "idle", "get_accounts", "pages", "cached", "raised"
    acc_i,                \* index of the page _find_accounts is at
    acc_found,            \* instagram_business_accounts, as indexes of pages
    acc_exc,              \* the exception that left the stream's list(), or "none"
    acc_stream,           \* index of the stream that is read
    acc_data_calls,       \* data-fetch calls issued by the streams
    acc_emitted,          \* records emitted by the streams
    \* ---- Square: one read of a stream through HttpStream.read_records ----
    sq_stream,            \* the stream class that is read
    sq_state,             \* stream_state: <<>> without the cursor field, <<value>> with it
    sq_provider,          \* the provider: its number of pages and how its last page ends
    sq_token,             \* next_page_token: <<>> for None, <<token>> otherwise
    sq_pc,                \* position of read_records: "request", "done", "failed"
    sq_served,            \* the pages the provider has served, in order
    lastRequest,          \* the request of the step just taken
    lastSend,             \* how _send_request ended in the step just taken
    \* ---- the watermark snapshot: state getter and setter ----
    snap_state,           \* self._state: partition -> datetime
    snap_value,           \* what the getter returned
    snap_restored,        \* self._state after the setter was given snap_value
    snap_pc,              \* "live", "saved", "restored"
    \* ---- Media.list and Stories.list ----
    md_stream,            \* "Media" or "Stories"
    md_fields,            \* self.fields
    md_feed,              \* per account, the pages of items the provider delivers
    md_acct,              \* index of the account in progress
    md_page,              \* the page of its feed that is loaded
    md_pos,               \* position in the queue of that page
    md_pc,                \* "account", "items", "done"
    md_log,               \* provider calls and emitted records, in order
    md_last,              \* the item of the step just taken
    \* ---- Square: get_updated_state over the records of a read ----
    us_start,             \* self.start_date
    us_state,             \* the stream state: <<>> without the cursor field, <<value>> with it
    us_records,           \* the cursor values of the records processed, in order
    \* ---- Square: SourceSquare.check_connection ----
    cc_sandbox,           \* config["is_sandbox"]
    cc_log,               \* the calls of check_connection so far: what happened, what came back
    lastCheck             \* the call of the step just taken

wmVars == <<state, ui_pc, account_idx, buffered_start_date, start_date, lastFilter,
            provider, run, seen, fresh, lastWindow, run_start, last_emitted>>
fetchVars == <<pages, loaded, queue, finished, qpos, pg_pc, consumed, outer_tries,
               inner_tries, backoffs, transport_calls, lastAttempt, lastCall>>
parseVars == <<headers, parsed>>
urlVars == <<url_orig, url_record, url_first, url_steps, url_raised, url_impl>>
mergeVars == <<merge_list, merge_record>>
insVars == <<ins_stream, ins_impl, ins_items, ins_acct, ins_idx, ins_pc, ins_tries, ins_backoffs,
             ins_emitted, lastInsight>>
shapeVars == <<urlVars, mergeVars, insVars>>
coreVars == <<wmVars, fetchVars, parseVars, shapeVars>>
accVars == <<acc_pages, acc_pc, acc_i, acc_found, acc_exc, acc_stream, acc_data_calls,
             acc_emitted>>
sqVars == <<sq_stream, sq_state, sq_provider, sq_token, sq_pc, sq_served, lastRequest,
            lastSend>>
snapVars == <<snap_state, snap_value, snap_restored, snap_pc>>
mdVars == <<md_stream, md_fields, md_feed, md_acct, md_page, md_pos, md_pc, md_log, md_last>>
usVars == <<us_start, us_state, us_records>>
ccVars == <<cc_sandbox, cc_log, lastCheck>>
extVars == <<accVars, sqVars, snapVars, mdVars, usVars, ccVars>>
vars == <<coreVars, extVars>>

None == "None"            \* Python's None as a returned value

Max(a, b) == IF a >= b THEN a ELSE b

(***************************************************************************)
(* Time.  Datetimes are whole days counted from an arbitrary origin.       *)
(***************************************************************************)
Now == 3                  \* pendulum.now(), in days
buffer_days == 29
days_increment == 1

\* The configured start-date floor (self._api._start_date).
StartDates == {Now - 31, Now - 1}
\* Watermarks a previous run may have checkpointed.
StoredDates == {Now - 30, Now - 1}
\* The provider holds insight data for the last DataDays days and today only.
DataDays == 2

\* self._api.accounts: the connected accounts, in the order of the list.
\* Each has the page it was found under and the business account's id.
Accounts == <<[page_id |-> "page1", id |-> "acc1"], [page_id |-> "page2", id |-> "acc2"]>>
AccountIds == {Accounts[i].id : i \in 1..Len(Accounts)}

(***************************************************************************)
(* Watermark store: InstagramIncrementalStream and UserInsights.           *)
(***************************************************************************)
EmptyMap == [a \in {} |-> 0]

\* dict.get(key) is truthy: the key is there (the values held are never falsy)
Has(map, key) == key \in DOMAIN map

\* An assignment that loses the other keys of the dict
PutMutOnly(map, key, value) == [a \in {key} |-> value]
\* dict.update({key: value}) / map[key] = value on a Python dict
Put(map, key, value) == [a \in (DOMAIN map) \cup {key} |-> IF a = key THEN value ELSE map[a]]

\* A datetime as the text the provider or the checkpoint carries it in.
DateString(d) == [iso |-> d]
parse(s) == s.iso

\* state.setter: the checkpointed map of strings becomes a map of datetimes
state_setter(value) == [a \in DOMAIN value |-> parse(value[a])]

\* The checkpoints a previous run may have left: any subset of the accounts.
Checkpoints ==
    UNION {[S -> {DateString(d) : d \in StoredDates}] : S \in SUBSET AccountIds}

\* The comparison of state_filter: TRUE when the record is already seen.
AlreadySeenMutStrict(watermark, cursor) == watermark > cursor
AlreadySeen(watermark, cursor) == watermark >= cursor

\* The value state_filter stores for an accepted record.
AdvancedMutOld(watermark, cursor) == watermark
Advanced(watermark, cursor) == Max(cursor, watermark)

\* A filter that lost its comparison: every record is accepted and its cursor stored.
state_filterMutNoGuard(st, record) ==
    [state |-> Put(st, record["business_account_id"], parse(record["date"])),
     returned |-> <<record>>]

\* state_filter(record): the new self._state and the returned value, <<>> for
\* None and <<record>> for the record.  record is a map holding at least the
\* cursor field (business_account_id) and the state_pk field (date).
state_filter(st, record) ==
    LET cursor == parse(record["date"])
        key == record["business_account_id"]
    IN  IF AlreadySeen(st[key], cursor)
        THEN [state |-> st, returned |-> <<>>]
        ELSE [state |-> Put(st, key, Advanced(st[key], cursor)), returned |-> <<record>>]

\* _set_state(account_id): the floor of an account's watermark
SetStateValueMutNoClamp(st, account_id) ==
    IF Has(st, account_id) THEN st[account_id] ELSE start_date
SetStateValue(st, account_id) ==
    LET start == IF Has(st, account_id) THEN st[account_id] ELSE start_date
    IN  Max(start, Now - buffer_days)

\* What the provider may answer for one window [since, since + 1 day): the
\* metric entries of the four period requests, concatenated.  Each entry has
\* a name, a period, a value and the end_time of its first value.
InsightNames == {"impressions", "reach"}
InsightPeriods == {"day", "week", "days_28", "lifetime"}
EndTimes(since) == {since - 1, since, since + 1, since + 2}
Insights(since) ==
    [name : InsightNames, period : InsightPeriods, value : {7},
     end_time : {DateString(d) : d \in EndTimes(since)}]
InsightLists(since) ==
    IF since < Now - DataDays THEN {<<>>}
    ELSE {<<>>} \cup {<<i>> : i \in Insights(since)}
                \cup {<<i, j>> : i \in {k \in Insights(since) : k.name = "impressions"},
                                 j \in {k \in Insights(since) : k.name = "impressions" /\ k.period = "week"}}

\* The key an entry is stored under in the merged record
InsightKeyMutName(insight) == insight.name
InsightKey(insight) ==
    IF insight.period \in {"week", "days_28"}
    THEN insight.name \o "_" \o insight.period
    ELSE insight.name

\* The merged record of one window: page_id, business_account_id, one field
\* per entry, and the date of the first entry.
RECURSIVE MergeInsights(_, _)
MergeInsights(record, insight_list) ==
    IF insight_list = <<>> THEN record
    ELSE LET insight == Head(insight_list)
             withValue == Put(record, InsightKey(insight), insight.value)
             withDate == IF Has(withValue, "date")
                         THEN withValue
                         ELSE Put(withValue, "date", insight.end_time)
         IN  MergeInsights(withDate, Tail(insight_list))

InsightRecord(account, insight_list) ==
    MergeInsights([k \in {"page_id", "business_account_id"} |->
                      IF k = "page_id" THEN account.page_id ELSE account.id],
                  insight_list)

NoFilter == [partition |-> None, cursor |-> 0, old |-> 0, returned |-> FALSE, first |-> FALSE]

\* The provider's insight data.  Of kind "any" it may answer a window with
\* any list of entries; of kind "one_day" it holds data for the one day
\* 'day' and gives it to the window that starts 'offset' days before it (the
\* end_time of a daily value is the start or the end of its day).
AnyProvider == [kind |-> "any", day |-> 0, offset |-> 0]
OneDayProviders ==
    [kind : {"one_day"}, day : (Now - DataDays)..Now, offset : {0, 1}]
ProviderAnswers(p, since) ==
    IF p.kind = "any" THEN InsightLists(since)
    ELSE IF since + p.offset = p.day
    THEN {<<[name |-> "impressions", period |-> "day", value |-> 7,
             end_time |-> DateString(p.day)]>>}
    ELSE {<<>>}

\* METRICS_BY_PERIOD.items(): the periods, in the order of the dict
WindowPeriodsMutNoLifetime == <<"day", "week", "days_28">>
WindowPeriods == <<"day", "week", "days_28", "lifetime">>

\* params_list of _params for the window that starts at since: one request
\* per period over [since, since + days_increment)
WindowParams(since) ==
    [i \in 1..Len(WindowPeriods) |->
        [period |-> WindowPeriods[i], since |-> since, until |-> since + days_increment]]

NoWindow == [account |-> None, requests |-> <<>>, merged |-> 0, filtered |-> 0,
             failed |-> FALSE]

\* state getter: the snapshot the host checkpoints, a map of strings
state_getterMutLost(st) == EmptyMap
state_getter(st) == [a \in DOMAIN st |-> DateString(st[a])]

\* self._state after an insight request of a window raised: the entries
\* fetched so far (insight_list) were not merged and not filtered.
AfterFailedWindowMutFiltered(st, account, insight_list) ==
    IF insight_list = <<>> THEN st
    ELSE state_filter(st, InsightRecord(account, insight_list)).state
AfterFailedWindow(st, account, insight_list) == st

\* The host restores the checkpoint through the state setter before reading.
SetState ==
    /\ ui_pc = "init"
    /\ run = 1
    /\ \E value \in Checkpoints : state' = state_setter(value)
    /\ run_start' = state'
    /\ UNCHANGED last_emitted
    /\ ui_pc' = "account"
    /\ lastFilter' = NoFilter
    /\ lastWindow' = NoWindow
    /\ UNCHANGED <<account_idx, buffered_start_date, start_date, provider, run, seen,
                   fresh>>
    /\ UNCHANGED <<fetchVars, parseVars, shapeVars, extVars>>

\* for account in self._api.accounts: _set_state(account_id), then _params starts
EnterAccount ==
    /\ ui_pc = "account"
    /\ account_idx <= Len(Accounts)
    /\ LET account_id == Accounts[account_idx].id
           floor == SetStateValue(state, account_id)
       IN  /\ state' = Put(state, account_id, floor)
           /\ buffered_start_date' = floor
           /\ fresh' = IF Has(state, account_id) THEN fresh ELSE fresh \cup {account_id}
    /\ ui_pc' = "windows"
    /\ lastFilter' = NoFilter
    /\ lastWindow' = NoWindow
    /\ UNCHANGED <<account_idx, start_date, provider, run, seen>>
    /\ UNCHANGED <<run_start, last_emitted>>
    /\ UNCHANGED <<fetchVars, parseVars, shapeVars, extVars>>

\* One iteration of 'for params_per_day in self._params(account_id)': the
\* four period requests, the merge, the filter.
Window ==
    /\ ui_pc = "windows"
    /\ buffered_start_date <= Now
    /\ \E insight_list \in ProviderAnswers(provider, buffered_start_date) :
          LET account_id == Accounts[account_idx].id
              params_per_day == WindowParams(buffered_start_date)
              window == [account |-> account_id, requests |-> params_per_day,
                         merged |-> 0, filtered |-> 0, failed |-> FALSE]
          IN  IF insight_list = <<>>
              THEN /\ lastFilter' = NoFilter
                   /\ lastWindow' = window
                   /\ UNCHANGED <<state, seen, last_emitted>>
              ELSE LET record == InsightRecord(Accounts[account_idx], insight_list)
                       res == state_filter(state, record)
                   IN  /\ state' = res.state
                       /\ lastFilter' = [partition |-> account_id,
                                         cursor |-> parse(record["date"]),
                                         old |-> state[account_id],
                                         returned |-> res.returned # <<>>,
                                         first |-> account_id \notin seen]
                       /\ lastWindow' = [window EXCEPT !.merged = 1, !.filtered = 1]
                       /\ seen' = seen \cup {account_id}
                       /\ last_emitted' = IF res.returned # <<>>
                                          THEN Put(last_emitted, account_id,
                                                   parse(record["date"]))
                                          ELSE last_emitted
    /\ buffered_start_date' = buffered_start_date + days_increment
    /\ UNCHANGED run_start
    /\ UNCHANGED <<ui_pc, account_idx, start_date, provider, run, fresh>>
    /\ UNCHANGED <<fetchVars, parseVars, shapeVars, extVars>>

\* insight_list when the first 'done' requests of a window have returned:
\* nothing, or an entry of one of their periods
FetchedBefore(p, since, done) ==
    IF done = 0 THEN {<<>>}
    ELSE IF p.kind = "any"
    THEN IF since < Now - DataDays THEN {<<>>}
         ELSE {<<>>} \cup {<<i>> : i \in {k \in Insights(since) :
                                            \E j \in 1..done : k.period = WindowPeriods[j]}}
    ELSE ProviderAnswers(p, since)

\* One iteration in which an insight request fails for good (the retry
\* policy gave up): the exception leaves _get_insight_records and list().
WindowFails ==
    /\ ui_pc = "windows"
    /\ buffered_start_date <= Now
    /\ \E done \in 0..(Len(WindowPeriods) - 1) :
       \E insight_list \in FetchedBefore(provider, buffered_start_date, done) :
          /\ state' = AfterFailedWindow(state, Accounts[account_idx], insight_list)
          /\ lastWindow' = [account |-> Accounts[account_idx].id,
                            requests |-> SubSeq(WindowParams(buffered_start_date),
                                                1, done + 1),
                            merged |-> 0, filtered |-> 0, failed |-> TRUE]
    /\ ui_pc' = "failed"
    /\ lastFilter' = NoFilter
    /\ UNCHANGED <<account_idx, buffered_start_date, start_date, provider, run, seen,
                   fresh>>
    /\ UNCHANGED <<run_start, last_emitted>>
    /\ UNCHANGED <<fetchVars, parseVars, shapeVars, extVars>>

\* _params is exhausted: the next account
NextAccount ==
    /\ ui_pc = "windows"
    /\ buffered_start_date > Now
    /\ account_idx' = account_idx + 1
    /\ ui_pc' = "account"
    /\ lastFilter' = NoFilter
    /\ lastWindow' = NoWindow
    /\ UNCHANGED <<state, buffered_start_date, start_date, provider, run, seen, fresh>>
    /\ UNCHANGED <<run_start, last_emitted>>
    /\ UNCHANGED <<fetchVars, parseVars, shapeVars, extVars>>

\* the account list is exhausted: list() returns
ListDone ==
    /\ ui_pc = "account"
    /\ account_idx > Len(Accounts)
    /\ ui_pc' = "done"
    /\ lastFilter' = NoFilter
    /\ lastWindow' = NoWindow
    /\ UNCHANGED <<state, account_idx, buffered_start_date, start_date, provider, run,
                   seen, fresh>>
    /\ UNCHANGED <<run_start, last_emitted>>
    /\ UNCHANGED <<fetchVars, parseVars, shapeVars, extVars>>

\* The run is over and the host checkpoints the state getter's snapshot; the
\* next run builds a new UserInsights and restores the snapshot through the
\* state setter.  The provider and the clock are as they were.
Restart ==
    /\ ui_pc = "done"
    /\ run = 1
    /\ state' = state_setter(state_getter(state))
    /\ run_start' = state'
    /\ last_emitted' = EmptyMap
    /\ run' = 2
    /\ ui_pc' = "account"
    /\ account_idx' = 1
    /\ buffered_start_date' = 0
    /\ seen' = {}
    /\ fresh' = {}
    /\ lastFilter' = NoFilter
    /\ lastWindow' = NoWindow
    /\ UNCHANGED <<start_date, provider>>
    /\ UNCHANGED <<fetchVars, parseVars, shapeVars, extVars>>

(***************************************************************************)
(* Call-rate governor: MyFacebookAdsApi.                                   *)
(***************************************************************************)
call_rate_threshold == 90

\* The usage headers the parser looks at, in the order it looks at them.
HeaderNames == <<"x-business-use-case-usage", "x-app-usage", "x-ad-account-usage">>
HeaderNameSet == {HeaderNames[i] : i \in 1..Len(HeaderNames)}

\* A header value: missing, the empty string, a text that is the JSON of a
\* mapping, or a text that is no JSON at all.
HAbsent == [kind |-> "absent"]
HEmpty == [kind |-> "empty"]
HGarbage == [kind |-> "garbage"]
UsageFields == {"call_count", "acc_id_util_pct", "estimated_time_to_regain_access"}
FieldValues(f) ==
    CASE f = "call_count" -> {0, 90, 91}
      [] f = "acc_id_util_pct" -> {0, 50}
      [] OTHER -> {2}
UsageDicts ==
    UNION {{d \in [S -> {0, 2, 50, 90, 91}] : \A f \in S : d[f] \in FieldValues(f)} :
           S \in SUBSET UsageFields}
HeaderValues == {HAbsent, HEmpty, HGarbage} \cup {[kind |-> "json", body |-> d] : d \in UsageDicts}

\* Python truthiness of headers.get(name)
Truthy(h) == h.kind \notin {"absent", "empty"}

\* headers.get(n1) or headers.get(n2) or headers.get(n3)
UsageHeader(hs) ==
    IF Truthy(hs[HeaderNames[1]]) THEN hs[HeaderNames[1]]
    ELSE IF Truthy(hs[HeaderNames[2]]) THEN hs[HeaderNames[2]]
    ELSE hs[HeaderNames[3]]

\* d.get(a) or d.get(b) or 0, on numbers: None and 0 are both falsy
CallCountOfMutPresent(d) ==
    IF Has(d, "call_count") THEN d["call_count"]
    ELSE IF Has(d, "acc_id_util_pct") THEN d["acc_id_util_pct"]
    ELSE 0
CallCountOfMutPct(d) ==
    IF Has(d, "acc_id_util_pct") /\ d["acc_id_util_pct"] # 0 THEN d["acc_id_util_pct"]
    ELSE IF Has(d, "call_count") /\ d["call_count"] # 0 THEN d["call_count"]
    ELSE 0
CallCountOf(d) ==
    IF Has(d, "call_count") /\ d["call_count"] # 0 THEN d["call_count"]
    ELSE IF Has(d, "acc_id_util_pct") /\ d["acc_id_util_pct"] # 0 THEN d["acc_id_util_pct"]
    ELSE 0

\* pendulum.duration(minutes = d.get("estimated_time_to_regain_access", 0)), in minutes
PauseOf(d) ==
    IF Has(d, "estimated_time_to_regain_access")
    THEN d["estimated_time_to_regain_access"]
    ELSE 0

\* parse_call_rate_header(headers): (call_count, pause_interval), the pause in
\* minutes; raised is TRUE when json.loads raises instead.
parse_call_rate_header(hs) ==
    LET usage_header == UsageHeader(hs)
    IN  IF ~Truthy(usage_header)
        THEN [raised |-> FALSE, call_count |-> 0, pause_interval |-> 0]
        ELSE IF usage_header.kind = "garbage"
        THEN [raised |-> TRUE, call_count |-> 0, pause_interval |-> 0]
        ELSE [raised |-> FALSE,
              call_count |-> CallCountOf(usage_header.body),
              pause_interval |-> PauseOf(usage_header.body)]

\* The condition of handle_call_rate_limit under which it sleeps.
MustPauseMutAnd(call_count, pause_interval) ==
    call_count > call_rate_threshold /\ pause_interval # 0
MustPauseMutGeq(call_count, pause_interval) ==
    call_count >= call_rate_threshold \/ pause_interval # 0
MustPause(call_count, pause_interval) ==
    call_count > call_rate_threshold \/ pause_interval # 0

\* handle_call_rate_limit(response, params): what it parsed, and the sleep it
\* made, <<>> for none and <<seconds>> for sleep(seconds).
handle_call_rate_limit(hs) ==
    LET p == parse_call_rate_header(hs)
    IN  [raised |-> p.raised,
         call_count |-> p.call_count,
         pause_interval |-> p.pause_interval,
         slept |-> IF ~p.raised /\ MustPause(p.call_count, p.pause_interval)
                   THEN <<60 * p.pause_interval>>
                   ELSE <<>>]

(***************************************************************************)
(* Retry policy: backoff_policy = retry_pattern(backoff.expo,              *)
(* FacebookRequestError, max_tries=7, factor=5).                           *)
(***************************************************************************)
max_triesMutOneMore == 7 + 1
max_tries == 7

\* The errors a transport call raises: a FacebookRequestError the policy
\* classifies as retryable ("transient") or as not retryable ("permanent").
ErrorKinds == {"transient", "permanent"}

\* giveup: the policy does not retry an error it classifies as not retryable
giveupMutNever(kind) == FALSE
giveup(kind) == kind # "transient"

\* What the policy does with an error raised by attempt number tries.
OnException(tries, kind) ==
    IF giveup(kind) \/ tries >= max_tries THEN "raise" ELSE "retry"

(***************************************************************************)
(* Pagination: InstagramStream.pagination over a Cursor of the SDK.        *)
(***************************************************************************)
MaxPages == 3
PageLens == {0, 1, 2}

\* Items are told apart by the page they come from and their place in it.
PageOf(p, n) == [i \in 1..n |-> <<p, i>>]
ProviderPages ==
    UNION {{[p \in 1..k |-> PageOf(p, lens[p])] : lens \in [1..k -> PageLens]} :
           k \in 1..MaxPages}

RECURSIVE Concat(_, _)
\* the items of the first n pages, in order
Concat(ps, n) == IF n = 0 THEN <<>> ELSE Concat(ps, n - 1) \o ps[n]

\* The responses of a paginated read carry their usage under x-app-usage.
OneHeader(name, value) == [n \in HeaderNameSet |-> IF n = name THEN value ELSE HAbsent]
ResponseHeaders == {OneHeader(HeaderNames[2], v) : v \in HeaderValues}

NoAttempt == [outcome |-> "none", checked |-> FALSE, call_count |-> 0,
              pause_interval |-> 0, slept |-> <<>>]
NoCall == [result |-> "none", attempts |-> 0, failures |-> 0]

\* A wrapped stream method (get_instance_cursor, load_next_page) is entered:
\* its first attempt is about to call the governed client.
BeginFetch ==
    /\ pg_pc' = "fetching"
    /\ outer_tries' = 1
    /\ inner_tries' = 0
    /\ backoffs' = 0
    /\ transport_calls' = 0

\* The wrapped stream method returns: the attempt counters of the retry
\* policies are locals of the call that ended.
EndFetch ==
    /\ outer_tries' = 0
    /\ inner_tries' = 0
    /\ backoffs' = 0
    /\ transport_calls' = 0

\* The test that lets pagination ask for another page
NextPageMutAlways(fin) == TRUE
NextPage(fin) == ~fin

\* The test that ends 'yield from instance._queue': every item was delivered
QueueDrainedMutEarly(pos, q) == pos >= Len(q) - 1
QueueDrained(pos, q) == pos = Len(q)

\* The generator runs on once load_next_page has returned, the Cursor holding
\* queue q and completion flag fin: 'yield from instance._queue', then
\* next_page = not instance._finished_iteration.
AfterLoad(q, fin) ==
    IF ~QueueDrained(0, q)
    THEN /\ pg_pc' = "yielded"
         /\ qpos' = 1
         /\ consumed' = Append(consumed, q[1])
         /\ EndFetch
    ELSE /\ qpos' = 0
         /\ consumed' = consumed
         /\ IF NextPage(fin)
            THEN BeginFetch
            ELSE /\ pg_pc' = "done"
                 /\ EndFetch

\* The consumer's first pull: instance = self.get_instance_cursor(...)
PullFirst ==
    /\ pg_pc = "new"
    /\ BeginFetch
    /\ lastAttempt' = NoAttempt
    /\ lastCall' = NoCall
    /\ UNCHANGED <<pages, loaded, queue, finished, qpos, consumed>>
    /\ UNCHANGED <<wmVars, parseVars, shapeVars, extVars>>

\* A pull while the queue still holds an item that was not delivered
PullItem ==
    /\ pg_pc = "yielded"
    /\ ~QueueDrained(qpos, queue)
    /\ qpos' = qpos + 1
    /\ consumed' = Append(consumed, queue[qpos + 1])
    /\ lastAttempt' = NoAttempt
    /\ lastCall' = NoCall
    /\ UNCHANGED <<pages, loaded, queue, finished, pg_pc, outer_tries, inner_tries,
                   backoffs, transport_calls>>
    /\ UNCHANGED <<wmVars, parseVars, shapeVars, extVars>>

\* A pull after the last item of the queue: next_page is set, and
\* self.load_next_page(instance) is entered.  (A Cursor whose completion flag
\* is set returns from load_next_page at once, its queue as it was.)
PullNextPage ==
    /\ pg_pc = "yielded"
    /\ QueueDrained(qpos, queue)
    /\ NextPage(finished)
    /\ IF finished
       THEN AfterLoad(queue, finished)
       ELSE /\ BeginFetch
            /\ UNCHANGED <<qpos, consumed>>
    /\ lastAttempt' = NoAttempt
    /\ lastCall' = NoCall
    /\ UNCHANGED <<pages, loaded, queue, finished>>
    /\ UNCHANGED <<wmVars, parseVars, shapeVars, extVars>>

\* A pull after the last item of the last page: the generator returns
PullDone ==
    /\ pg_pc = "yielded"
    /\ QueueDrained(qpos, queue)
    /\ ~NextPage(finished)
    /\ pg_pc' = "done"
    /\ lastAttempt' = NoAttempt
    /\ lastCall' = NoCall
    /\ UNCHANGED <<pages, loaded, queue, finished, qpos, consumed, outer_tries,
                   inner_tries, backoffs, transport_calls>>
    /\ UNCHANGED <<wmVars, parseVars, shapeVars, extVars>>

\* The SDK's Cursor takes in the response of a page request: its queue is
\* the items of that page, and its completion flag is set when the provider
\* names no further page.
CursorLoad ==
    /\ loaded' = loaded + 1
    /\ queue' = pages[loaded + 1]
    /\ finished' = (loaded + 1 = Len(pages))

\* MyFacebookAdsApi.call, one attempt, the transport answering with a
\* response: the rate-limit check runs, then the response is returned and
\* the Cursor takes the page in.
TransportOk ==
    /\ pg_pc = "fetching"
    /\ loaded < Len(pages)
    /\ \E hs \in ResponseHeaders :
          LET gov == handle_call_rate_limit(hs)
          IN  /\ lastAttempt' = [outcome |-> "ok", checked |-> TRUE,
                                 call_count |-> gov.call_count,
                                 pause_interval |-> gov.pause_interval,
                                 slept |-> gov.slept]
              /\ IF gov.raised
                 THEN \* json.loads raised: no FacebookRequestError, so no retry
                      /\ pg_pc' = "failed"
                      /\ lastCall' = [result |-> "raised", attempts |-> inner_tries + 1,
                                      failures |-> inner_tries]
                      /\ inner_tries' = inner_tries + 1
                      /\ transport_calls' = transport_calls + 1
                      /\ UNCHANGED <<loaded, queue, finished, qpos, consumed,
                                     outer_tries, backoffs>>
                 ELSE /\ lastCall' = [result |-> "returned", attempts |-> inner_tries + 1,
                                      failures |-> inner_tries]
                      /\ CursorLoad
                      /\ AfterLoad(queue', finished')
    /\ UNCHANGED pages
    /\ UNCHANGED <<wmVars, parseVars, shapeVars, extVars>>

\* MyFacebookAdsApi.call, one attempt, the transport raising an error: the
\* error leaves call() at once, and the retry policies decide.
TransportError ==
    /\ pg_pc = "fetching"
    /\ \E kind \in ErrorKinds :
          LET attempts == inner_tries + 1
          IN  /\ lastAttempt' = [outcome |-> kind, checked |-> FALSE, call_count |-> 0,
                                 pause_interval |-> 0, slept |-> <<>>]
              /\ transport_calls' = transport_calls + 1
              /\ IF OnException(attempts, kind) = "retry"
                 THEN \* the policy around call() sleeps and calls again
                      /\ inner_tries' = attempts
                      /\ backoffs' = backoffs + 1
                      /\ lastCall' = NoCall
                      /\ UNCHANGED <<pg_pc, outer_tries>>
                 ELSE \* call() raises into the wrapped stream method
                      /\ lastCall' = [result |-> "raised", attempts |-> attempts,
                                      failures |-> attempts]
                      /\ IF OnException(outer_tries, kind) = "retry"
                         THEN /\ outer_tries' = outer_tries + 1
                              /\ inner_tries' = 0
                              /\ backoffs' = backoffs + 1
                              /\ UNCHANGED pg_pc
                         ELSE /\ pg_pc' = "failed"
                              /\ inner_tries' = attempts
                              /\ UNCHANGED <<outer_tries, backoffs>>
    /\ UNCHANGED <<pages, loaded, queue, finished, qpos, consumed>>
    /\ UNCHANGED <<wmVars, parseVars, shapeVars, extVars>>

\* parse_call_rate_header(headers), called once on the given headers
NoParse == [called |-> FALSE, raised |-> FALSE, call_count |-> 0, pause_interval |-> 0]

Parse ==
    /\ ~parsed.called
    /\ LET p == parse_call_rate_header(headers)
       IN  parsed' = [called |-> TRUE, raised |-> p.raised, call_count |-> p.call_count,
                      pause_interval |-> p.pause_interval]
    /\ UNCHANGED headers
    /\ UNCHANGED <<wmVars, fetchVars, shapeVars, extVars>>

(***************************************************************************)
(* Record shaping: URL sanitization.  A URL is everything before its query *)
(* and the query string.  A query string is kept as what splitting it      *)
(* gives: the sequence of its '&'-separated segments, each the sequence of *)
(* its '='-separated parts; the empty string is one segment of one empty   *)
(* part, as "".split("&") == [""] and "".split("=") == [""].               *)
(***************************************************************************)
MaxParams == 3
EmptyString == <<<<"">>>>
Volatile == {"_nc_rid", "ccb"}
Segments ==
    {<<"_nc_rid", "1">>, <<"ccb", "1">>, <<"w", "1">>, <<"h", "1">>,   \* key=value
     <<"w", "1", "2">>,                                                \* w=1=2
     <<"w">>}                                                          \* w
QueryStrings ==
    {EmptyString} \cup UNION {[1..n -> Segments] : n \in 1..MaxParams}
Urls == {[base |-> "https://cdn/v", query |-> q] : q \in QueryStrings}
PictureUrls == {[base |-> "https://cdn/p", query |-> q] :
                    q \in {EmptyString, <<<<"ccb", "1">>>>, <<<<"w", "1">>, <<"ccb", "1">>>>}}

\* "&".join(list): the join of no segment is the empty string
Join(list) == IF list = <<>> THEN EmptyString ELSE list

\* key, value = q.split("="): raises ValueError unless there are two parts
Unpacks(q) == Len(q) = 2

\* clear_query_params(url): the URL without its _nc_rid and ccb parameters,
\* or raised when a segment of the query does not unpack
clear_query_params(url) ==
    LET query == url.query
    IN  IF \E i \in 1..Len(query) : ~Unpacks(query[i])
        THEN [raised |-> TRUE, url |-> url]
        ELSE [raised |-> FALSE,
              url |-> [url EXCEPT !.query =
                          Join(SelectSeq(query, LAMBDA q : q[1] \notin Volatile))]]

\* remove_params_from_url(url, params): the URL without the named parameters
remove_params_from_url(url, params) ==
    [raised |-> FALSE,
     url |-> [url EXCEPT !.query =
                 Join(SelectSeq(url.query, LAMBDA q : q[1] \notin params))]]

\* A record with the fields sanitization looks at; a field that is missing
\* is <<>>, a field that is present is <<value>>.
MediaTypes == {"VIDEO", "IMAGE"}
UrlRecords ==
    [media_type : MediaTypes,
     media_url : {<<>>} \cup {<<u>> : u \in Urls},
     profile_picture_url : {<<>>} \cup {<<u>> : u \in PictureUrls}]

\* The cleaning each implementation applies to the URL of a field:
\* clear_url cleans with clear_query_params, _clear_url removes _nc_rid
\* from media_url and ccb from profile_picture_url.
CleanField(impl, field, url) ==
    IF impl = "client"
    THEN clear_query_params(url)
    ELSE remove_params_from_url(url, IF field = "media_url" THEN {"_nc_rid"} ELSE {"ccb"})

\* The body of clear_url and of _clear_url: which field is cleaned
ClearRecord(impl, record_data) ==
    IF record_data.media_type = "VIDEO" /\ record_data.media_url # <<>>
    THEN LET r == CleanField(impl, "media_url", record_data.media_url[1])
         IN  [raised |-> r.raised,
              record |-> [record_data EXCEPT !.media_url = <<r.url>>]]
    ELSE IF record_data.profile_picture_url # <<>>
    THEN LET r == CleanField(impl, "profile_picture_url",
                             record_data.profile_picture_url[1])
         IN  [raised |-> r.raised,
              record |-> [record_data EXCEPT !.profile_picture_url = <<r.url>>]]
    ELSE [raised |-> FALSE, record |-> record_data]

\* client/api.py clear_url(record_data)
clear_url(record_data) == ClearRecord("client", record_data)

\* streams.py InstagramStream._clear_url(record_data)
_clear_url(record_data) == ClearRecord("streams", record_data)

NoUrlRecord == [media_type |-> "IMAGE", media_url |-> <<>>, profile_picture_url |-> <<>>]

\* One sanitization of the record by clear_url (client/api.py)
ClearUrl ==
    /\ url_steps < 2
    /\ ~url_raised
    /\ url_impl \in {"none", "client"}
    /\ LET res == clear_url(url_record)
       IN  /\ url_raised' = res.raised
           /\ url_record' = res.record
           /\ url_first' = IF url_steps = 0 THEN res.record ELSE url_first
    /\ url_impl' = "client"
    /\ url_steps' = url_steps + 1
    /\ UNCHANGED url_orig
    /\ UNCHANGED <<wmVars, fetchVars, parseVars, mergeVars, insVars, extVars>>

\* One sanitization of the record by _clear_url (streams.py)
StreamClearUrl ==
    /\ url_steps < 2
    /\ ~url_raised
    /\ url_impl \in {"none", "streams"}
    /\ LET res == _clear_url(url_record)
       IN  /\ url_raised' = res.raised
           /\ url_record' = res.record
           /\ url_first' = IF url_steps = 0 THEN res.record ELSE url_first
    /\ url_impl' = "streams"
    /\ url_steps' = url_steps + 1
    /\ UNCHANGED url_orig
    /\ UNCHANGED <<wmVars, fetchVars, parseVars, mergeVars, insVars, extVars>>

(***************************************************************************)
(* Record shaping: the merge of UserInsights as a function of the list of  *)
(* metric entries.                                                         *)
(***************************************************************************)
MaxEntries == 3
MergeEntries ==
    [name : InsightNames, period : InsightPeriods, value : {7, 8, 9},
     end_time : {DateString(Now)}]
MergeLists == UNION {[1..n -> MergeEntries] : n \in 1..MaxEntries}

\* insight_record = {...}; for insight in insight_list: ...
Merge ==
    /\ merge_list # <<>>
    /\ merge_record = EmptyMap
    /\ merge_record' = InsightRecord(Accounts[1], merge_list)
    /\ UNCHANGED merge_list
    /\ UNCHANGED <<wmVars, fetchVars, parseVars, urlVars, insVars, extVars>>

(***************************************************************************)
(* MediaInsights and StoriesInsights: list() walks the items of every      *)
(* account and fetches the insights of each through _get_insights, which   *)
(* the retry policy wraps.                                                 *)
(***************************************************************************)
MaxItems == 2
MEDIA_METRICS == <<"engagement", "impressions", "reach", "saved">>
CAROUSEL_ALBUM_METRICS ==
    <<"carousel_album_engagement", "carousel_album_impressions",
      "carousel_album_reach", "carousel_album_saved">>
STORY_METRICS == <<"exits", "impressions", "reach", "replies", "taps_forward", "taps_back">>

ItemTypes == {"VIDEO", "CAROUSEL_ALBUM", "IMAGE"}
\* a story is an image or a video; StoriesInsights does not look at the type
ProviderItems(stream) ==
    [1..Len(Accounts) ->
        UNION {[1..n -> IF stream = "media" THEN ItemTypes ELSE {"IMAGE"}] :
               n \in 0..MaxItems}]

\* The metrics MediaInsights._get_insights asks for, by media_type
MediaMetricsMutNoVideo(media_type) ==
    IF media_type = "CAROUSEL_ALBUM" THEN CAROUSEL_ALBUM_METRICS ELSE MEDIA_METRICS
MediaMetrics(media_type) ==
    IF media_type = "VIDEO" THEN MEDIA_METRICS \o <<"video_views">>
    ELSE IF media_type = "CAROUSEL_ALBUM" THEN CAROUSEL_ALBUM_METRICS
    ELSE MEDIA_METRICS

\* params={"metric": ...} of the request of either stream
RequestMetrics(stream, media_type) ==
    IF stream = "media" THEN MediaMetrics(media_type) ELSE STORY_METRICS

\* A FacebookRequestError raised by item.get_insights: api_error_code(),
\* api_error_subcode(), and whether the retry policy takes it as transient.
BenignSubcode == 2108006
BenignCode == 10
ProviderErrors ==
    [code : {BenignCode, 100}, subcode : {BenignSubcode, 0}, kind : ErrorKinds]

\* The errors the except clause of _get_insights answers by returning
\* (None for media, [] for stories) instead of raising
BenignMutNever(stream, error) == FALSE
BenignMutEither(stream, error) ==
    error.subcode = BenignSubcode \/ error.code = BenignCode
Benign(stream, error) ==
    IF stream = "media" THEN error.subcode = BenignSubcode
    ELSE error.code = BenignCode

\* 'if media_insights is None: break' of MediaInsights.list; StoriesInsights
\* goes on with the next story
BreakOnNoneMutNever(stream) == FALSE
BreakOnNone(stream) == stream = "media"

NoInsight == [stream |-> "none", media_type |-> "none", metrics |-> <<>>,
              error |-> <<>>, outcome |-> "none", attempt |-> 0, insights |-> "none"]

\* StoriesInsights.list of streams.py starts with Stories(api).read_records(),
\* called without the sync_mode that read_records requires: TypeError.  The
\* list() of client/api.py iterates the stories of each account itself.
ReadRecordsRaises(stream, impl) == stream = "stories" /\ impl = "streams"

HasItem ==
    /\ ins_pc = "list"
    /\ ~ReadRecordsRaises(ins_stream, ins_impl)
    /\ ins_acct <= Len(Accounts)
    /\ ins_idx <= Len(ins_items[ins_acct])

\* _get_insights returns the insights of the item: a record is yielded (by
\* StoriesInsights only when the insights are not empty), then the next item
InsightsReturned ==
    /\ HasItem
    /\ \E empty \in BOOLEAN :
          LET media_type == ins_items[ins_acct][ins_idx]
          IN  /\ lastInsight' = [stream |-> ins_stream, media_type |-> media_type,
                                 metrics |-> RequestMetrics(ins_stream, media_type),
                                 error |-> <<>>, outcome |-> "returned",
                                 attempt |-> ins_tries + 1,
                                 insights |-> IF empty THEN "empty" ELSE "some"]
              /\ ins_emitted' = IF ins_stream = "stories" /\ empty
                                THEN ins_emitted
                                ELSE Append(ins_emitted, <<ins_acct, ins_idx>>)
    /\ ins_idx' = ins_idx + 1
    /\ ins_tries' = 0
    /\ ins_backoffs' = 0
    /\ UNCHANGED <<ins_stream, ins_impl, ins_items, ins_acct, ins_pc>>
    /\ UNCHANGED <<wmVars, fetchVars, parseVars, urlVars, mergeVars, extVars>>

\* item.get_insights raises a FacebookRequestError: the except clause returns
\* for the benign signature and raises again otherwise; an error raised again
\* leaves _get_insights, and the retry policy retries it or gives up.
InsightsError ==
    /\ HasItem
    /\ \E error \in ProviderErrors :
          LET media_type == ins_items[ins_acct][ins_idx]
              attempt == [stream |-> ins_stream, media_type |-> media_type,
                          metrics |-> RequestMetrics(ins_stream, media_type),
                          error |-> <<error>>, outcome |-> "none",
                          attempt |-> ins_tries + 1, insights |-> "none"]
          IN  IF Benign(ins_stream, error)
              THEN /\ lastInsight' = [attempt EXCEPT !.outcome = "recovered"]
                   /\ ins_tries' = 0
                   /\ IF BreakOnNone(ins_stream)
                      THEN \* media_insights is None: break
                           /\ ins_acct' = ins_acct + 1
                           /\ ins_idx' = 1
                      ELSE \* insights == []: nothing yielded, the next story
                           /\ ins_idx' = ins_idx + 1
                           /\ UNCHANGED ins_acct
                   /\ ins_backoffs' = 0
                   /\ UNCHANGED ins_pc
              ELSE IF OnException(ins_tries + 1, error.kind) = "retry"
              THEN /\ lastInsight' = [attempt EXCEPT !.outcome = "retried"]
                   /\ ins_tries' = ins_tries + 1
                   /\ ins_backoffs' = ins_backoffs + 1
                   /\ UNCHANGED <<ins_acct, ins_idx, ins_pc>>
              ELSE /\ lastInsight' = [attempt EXCEPT !.outcome = "raised"]
                   /\ ins_pc' = "failed"
                   /\ ins_tries' = ins_tries + 1
                   /\ UNCHANGED <<ins_acct, ins_idx, ins_backoffs>>
    /\ UNCHANGED <<ins_stream, ins_impl, ins_items, ins_emitted>>
    /\ UNCHANGED <<wmVars, fetchVars, parseVars, urlVars, mergeVars, extVars>>

\* the items of the account are exhausted: the next account
NextInsightAccount ==
    /\ ins_pc = "list"
    /\ ~ReadRecordsRaises(ins_stream, ins_impl)
    /\ ins_acct <= Len(Accounts)
    /\ ins_idx > Len(ins_items[ins_acct])
    /\ ins_acct' = ins_acct + 1
    /\ ins_idx' = 1
    /\ lastInsight' = NoInsight
    /\ UNCHANGED <<ins_stream, ins_impl, ins_items, ins_pc, ins_tries, ins_backoffs, ins_emitted>>
    /\ UNCHANGED <<wmVars, fetchVars, parseVars, urlVars, mergeVars, extVars>>

\* the account list is exhausted: list() returns
InsightsDone ==
    /\ ins_pc = "list"
    /\ ~ReadRecordsRaises(ins_stream, ins_impl)
    /\ ins_acct > Len(Accounts)
    /\ ins_pc' = "done"
    /\ lastInsight' = NoInsight
    /\ UNCHANGED <<ins_stream, ins_impl, ins_items, ins_acct, ins_idx, ins_tries, ins_backoffs,
                   ins_emitted>>
    /\ UNCHANGED <<wmVars, fetchVars, parseVars, urlVars, mergeVars, extVars>>

\* The first pull of StoriesInsights.list of streams.py: the call of
\* read_records raises before any story is read
StoriesReadRecordsFails ==
    /\ ins_pc = "list"
    /\ ReadRecordsRaises(ins_stream, ins_impl)
    /\ ins_pc' = "failed"
    /\ lastInsight' = [NoInsight EXCEPT !.stream = ins_stream, !.outcome = "TypeError"]
    /\ UNCHANGED <<ins_stream, ins_impl, ins_items, ins_acct, ins_idx, ins_tries,
                   ins_backoffs, ins_emitted>>
    /\ UNCHANGED <<wmVars, fetchVars, parseVars, urlVars, mergeVars, extVars>>

(***************************************************************************)
(* InstagramAPI: the streams read self._api.accounts, a cached property    *)
(* that runs _find_accounts on its first access.                           *)
(***************************************************************************)
MaxUserPages == 3
MaxStreams == 2
MaxDataCalls == 2

\* page.get("instagram_business_account") is truthy
Qualifies(page) == page

\* What _find_accounts does once all pages are looked at: it raises when no
\* account was found and returns the list otherwise
EndOfDiscoveryMutReturnEmpty(found) == "cached"
EndOfDiscovery(found) == IF found = <<>> THEN "raised" ELSE "cached"

\* A stream's list() begins: 'for account in self._api.accounts'.  The
\* cached property holds the accounts, or _find_accounts runs.
StreamBegins ==
    /\ acc_pc = "idle"
    /\ acc_pc' = "get_accounts"
    /\ acc_i' = 1
    /\ acc_found' = <<>>
    /\ UNCHANGED <<acc_pages, acc_exc, acc_stream, acc_data_calls, acc_emitted>>
    /\ UNCHANGED <<coreVars, sqVars, snapVars, mdVars, usVars, ccVars>>

\* fb_user.User(fbid="me").get_accounts() returns the pages
GetAccountsOk ==
    /\ acc_pc = "get_accounts"
    /\ acc_pc' = "pages"
    /\ UNCHANGED <<acc_pages, acc_i, acc_found, acc_exc, acc_stream, acc_data_calls,
                   acc_emitted>>
    /\ UNCHANGED <<coreVars, sqVars, snapVars, mdVars, usVars, ccVars>>

\* get_accounts() raises FacebookRequestError: except ... raise InstagramAPIException
GetAccountsError ==
    /\ acc_pc = "get_accounts"
    /\ acc_pc' = "raised"
    /\ acc_exc' = "InstagramAPIException"
    /\ UNCHANGED <<acc_pages, acc_i, acc_found, acc_stream, acc_data_calls, acc_emitted>>
    /\ UNCHANGED <<coreVars, sqVars, snapVars, mdVars, usVars, ccVars>>

\* Page(account.get_id()).api_get(...) returns: the page is appended when it
\* has an instagram_business_account
PageGetOk ==
    /\ acc_pc = "pages"
    /\ acc_i <= Len(acc_pages)
    /\ acc_found' = IF Qualifies(acc_pages[acc_i]) THEN Append(acc_found, acc_i)
                    ELSE acc_found
    /\ acc_i' = acc_i + 1
    /\ UNCHANGED <<acc_pages, acc_pc, acc_exc, acc_stream, acc_data_calls, acc_emitted>>
    /\ UNCHANGED <<coreVars, sqVars, snapVars, mdVars, usVars, ccVars>>

\* api_get raises FacebookRequestError: except ... raise InstagramAPIException
PageGetError ==
    /\ acc_pc = "pages"
    /\ acc_i <= Len(acc_pages)
    /\ acc_pc' = "raised"
    /\ acc_exc' = "InstagramAPIException"
    /\ UNCHANGED <<acc_pages, acc_i, acc_found, acc_stream, acc_data_calls, acc_emitted>>
    /\ UNCHANGED <<coreVars, sqVars, snapVars, mdVars, usVars, ccVars>>

\* the pages are exhausted: 'if not instagram_business_accounts: raise', else
\* the list is returned and cached
FindAccountsEnds ==
    /\ acc_pc = "pages"
    /\ acc_i > Len(acc_pages)
    /\ acc_pc' = EndOfDiscovery(acc_found)
    /\ acc_exc' = IF EndOfDiscovery(acc_found) = "raised" THEN "InstagramAPIException"
                  ELSE acc_exc
    /\ UNCHANGED <<acc_pages, acc_i, acc_found, acc_stream, acc_data_calls, acc_emitted>>
    /\ UNCHANGED <<coreVars, sqVars, snapVars, mdVars, usVars, ccVars>>

\* The body of the loop over the accounts: a data-fetch call for an account,
\* and the records it gives
DataFetch ==
    /\ acc_pc = "cached"
    /\ acc_found # <<>>
    /\ acc_data_calls < MaxDataCalls
    /\ acc_data_calls' = acc_data_calls + 1
    /\ \E n \in {0, 1} : acc_emitted' = acc_emitted + n
    /\ UNCHANGED <<acc_pages, acc_pc, acc_i, acc_found, acc_exc, acc_stream>>
    /\ UNCHANGED <<coreVars, sqVars, snapVars, mdVars, usVars, ccVars>>

\* list() of the stream has ended, with the exception or without: the next
\* stream.  A cached property that raised has cached nothing.
StreamEnds ==
    /\ acc_pc \in {"cached", "raised"}
    /\ acc_stream < MaxStreams
    /\ acc_stream' = acc_stream + 1
    /\ acc_pc' = IF acc_pc = "cached" THEN "cached" ELSE "idle"
    /\ acc_exc' = "none"
    /\ UNCHANGED <<acc_pages, acc_i, acc_found, acc_data_calls, acc_emitted>>
    /\ UNCHANGED <<coreVars, sqVars, snapVars, mdVars, usVars, ccVars>>

(***************************************************************************)
(* Square: SquareStream and its subclasses, read page by page through      *)
(* HttpStream.read_records: request_params / request_body_json build the   *)
(* request, _send_request sends it, parse_response yields the records and  *)
(* next_page_token decides whether another page is asked for.              *)
(***************************************************************************)
MaxSqPages == 3
MaxSqRequests == 4
SquareStreams == {"Payments", "Refunds", "Customers", "TeamMemberWages", "Items"}

\* The provider holds 'pages' pages; the body of page p carries the cursor
\* p + 1 when a page follows, and on the last page no cursor or an empty one.
SquareProviders == [pages : 1..MaxSqPages, last : {"absent", "empty"}]
BodyOf(prov, p) ==
    [page |-> p,
     cursor |-> IF p < prov.pages THEN [kind |-> "value", value |-> p + 1]
                ELSE [kind |-> prov.last, value |-> 0]]

\* next_page_token(response): {"cursor": c} when response.json().get("cursor",
\* False) is truthy, None otherwise
next_page_tokenMutEmpty(body) ==
    IF body.cursor.kind # "absent" THEN <<[cursor |-> body.cursor.value]>> ELSE <<>>
next_page_token(body) ==
    IF body.cursor.kind = "value" THEN <<[cursor |-> body.cursor.value]>> ELSE <<>>

\* The parameters of a request (query parameters, or the JSON body of the
\* catalog search): each field is <<>> when missing and <<value>> when set.
NoParams == [cursor |-> <<>>, begin_time |-> <<>>, limit |-> <<>>, sort_order |-> <<>>,
             sort_field |-> <<>>, object_types |-> <<>>]

\* IncrementalSquareStream.request_params: <<>> is None, <<params>> a dict.
\* With a next_page_token it returns what dict.update returns, which is None.
IncrementalSquareStream_request_params(stream_state, token) ==
    LET params_payload == IF stream_state # <<>>
                          THEN [NoParams EXCEPT !.begin_time = stream_state]
                          ELSE NoParams
    IN  IF token # <<>> THEN <<>>
        ELSE <<[params_payload EXCEPT !.limit = <<100>>]>>

\* Refunds.request_params and Payments.request_params
SortedParams(stream_state, token) ==
    LET params_payload == IncrementalSquareStream_request_params(stream_state, token)
    IN  IF params_payload # <<>>
        THEN [params_payload[1] EXCEPT !.sort_order = <<"ASC">>]
        ELSE [NoParams EXCEPT !.sort_order = <<"ASC">>]

CursorOf(token) == IF token # <<>> THEN <<token[1].cursor>> ELSE <<>>

\* What the request of a stream carries
RequestOf(stream, stream_state, token) ==
    CASE stream \in {"Payments", "Refunds"} -> SortedParams(stream_state, token)
      [] stream = "Customers" ->
            [NoParams EXCEPT !.cursor = CursorOf(token), !.sort_order = <<"ASC">>,
                             !.sort_field = <<"CREATED_AT">>]
      [] stream = "TeamMemberWages" ->
            [NoParams EXCEPT !.cursor = CursorOf(token), !.limit = <<200>>]
      [] OTHER -> \* Items: IncrementalSquareCatalogObjectsStream.request_body_json
            [NoParams EXCEPT !.cursor = CursorOf(token), !.limit = <<1000>>,
                             !.begin_time = stream_state, !.object_types = <<"ITEM">>]

\* The page the provider answers a request with: the one its cursor names,
\* the first without a cursor
PageAsked(params) == IF params.cursor # <<>> THEN params.cursor[1] ELSE 1

\* The content of an HTTP error response: none, JSON with an "errors" entry,
\* JSON without one, JSON that is falsy ({} or []), or no JSON at all
ErrorContents == {"empty", "errors", "no_errors", "falsy_json", "not_json"}

\* SquareStream._send_request when super()._send_request raised HTTPError
\* with the given content: the exception it raises, or "None" when it falls
\* off its end
OnHTTPError(content) ==
    CASE content = "empty" -> "HTTPError"
      [] content = "not_json" -> "JSONDecodeError"
      [] content = "errors" -> "SquareException"
      [] OTHER -> "None"

NoRequest == [params |-> NoParams, token |-> <<>>, page |-> 0]
NoSend == [http_error |-> FALSE, content |-> "none", result |-> "none"]

\* One turn of the loop of read_records, the provider answering with a page
SquareResponse ==
    /\ sq_pc = "request"
    /\ Len(sq_served) < MaxSqRequests
    /\ LET params == RequestOf(sq_stream, sq_state, sq_token)
           page == PageAsked(params)
           body == BodyOf(sq_provider, page)
       IN  /\ lastRequest' = [params |-> params, token |-> sq_token, page |-> page]
           /\ sq_served' = Append(sq_served, page)
           /\ sq_token' = next_page_token(body)
           /\ sq_pc' = IF next_page_token(body) = <<>> THEN "done" ELSE "request"
    /\ lastSend' = [http_error |-> FALSE, content |-> "none", result |-> "response"]
    /\ UNCHANGED <<sq_stream, sq_state, sq_provider>>
    /\ UNCHANGED <<coreVars, accVars, snapVars, mdVars, usVars, ccVars>>

\* One turn of the loop, the provider answering with an HTTP error: what
\* _send_request raises leaves read_records; when it returns None,
\* parse_response(None) raises AttributeError
SquareHttpError ==
    /\ sq_pc = "request"
    /\ Len(sq_served) < MaxSqRequests
    /\ \E content \in ErrorContents :
          lastSend' = [http_error |-> TRUE, content |-> content,
                       result |-> OnHTTPError(content)]
    /\ LET params == RequestOf(sq_stream, sq_state, sq_token)
       IN  lastRequest' = [params |-> params, token |-> sq_token, page |-> PageAsked(params)]
    /\ sq_pc' = "failed"
    /\ UNCHANGED <<sq_stream, sq_state, sq_provider, sq_token, sq_served>>
    /\ UNCHANGED <<coreVars, accVars, snapVars, mdVars, usVars, ccVars>>

(***************************************************************************)
(* The watermark snapshot.  Here a datetime is a pendulum DateTime: an     *)
(* instant (hours from an arbitrary origin, UTC) in a timezone with an     *)
(* offset in hours.  Two DateTimes are equal when their instants are.      *)
(***************************************************************************)
MaxInstant == 2
Timezones == {[name |-> "UTC", offset |-> 0],
              [name |-> "Europe/Paris", offset |-> 1],
              [name |-> "-01:00", offset |-> -1]}
DateTimes == [instant : 0..MaxInstant, tz : Timezones]

\* str(account_state): the ISO text, the wall-clock time of the timezone
\* followed by its offset; the name of the timezone is not in it
IsoString(dt) ==
    [type |-> "str", local |-> dt.instant + dt.tz.offset, offset |-> dt.tz.offset]

\* pendulum.parse(account_state): the instant the text names, in a timezone
\* of the fixed offset of the text
FixedTimezone(offset) ==
    [name |-> CASE offset = 0 -> "UTC" [] offset > 0 -> "+01:00" [] OTHER -> "-01:00",
     offset |-> offset]
pendulum_parseMutWallClock(text) ==
    [instant |-> text.local, tz |-> FixedTimezone(text.offset)]
pendulum_parse(text) ==
    [instant |-> text.local - text.offset, tz |-> FixedTimezone(text.offset)]

\* The state property: its getter and its setter
StateGetter(st) == [account_id \in DOMAIN st |-> IsoString(st[account_id])]
StateSetter(value) == [account_id \in DOMAIN value |-> pendulum_parse(value[account_id])]

\* The watermark maps: any subset of the partitions, any datetimes
WatermarkMaps == UNION {[S -> DateTimes] : S \in SUBSET AccountIds}

\* The host reads stream.state
GetState ==
    /\ snap_pc = "live"
    /\ snap_value' = StateGetter(snap_state)
    /\ snap_pc' = "saved"
    /\ UNCHANGED <<snap_state, snap_restored>>
    /\ UNCHANGED <<coreVars, accVars, sqVars, mdVars, usVars, ccVars>>

\* A later run assigns the checkpointed value to stream.state
RestoreState ==
    /\ snap_pc = "saved"
    /\ snap_restored' = StateSetter(snap_value)
    /\ snap_pc' = "restored"
    /\ UNCHANGED <<snap_state, snap_value>>
    /\ UNCHANGED <<coreVars, accVars, sqVars, mdVars, usVars, ccVars>>

(***************************************************************************)
(* Media.list and Stories.list: for each account the items of its media    *)
(* (stories) edge, page by page; Media re-fetches the children of an item. *)
(***************************************************************************)
INVALID_CHILDREN_FIELDS ==
    {"caption", "comments_count", "is_comment_enabled", "like_count", "children"}

\* self.fields: the properties of the stream's schema
FieldSets == {INVALID_CHILDREN_FIELDS \cup {"id", "media_type", "media_url"},
              {"id", "media_url", "children"}}

\* children_fields = list(set(self.fields) - set(self.INVALID_CHILDREN_FIELDS))
children_fieldsMutAll(fields) == fields
children_fields(fields) == fields \ INVALID_CHILDREN_FIELDS

\* What the provider holds for an object: its media_type and its URLs
ProviderData(id) ==
    CASE id = "m1" ->
            [media_type |-> "VIDEO", profile_picture_url |-> <<>>,
             media_url |-> <<[base |-> "https://cdn/v",
                              query |-> <<<<"_nc_rid", "1">>, <<"w", "1">>>>]>>]
      [] id = "c1" ->
            [media_type |-> "VIDEO", profile_picture_url |-> <<>>,
             media_url |-> <<[base |-> "https://cdn/v",
                              query |-> <<<<"w", "1">>, <<"_nc_rid", "1">>>>]>>]
      [] OTHER ->
            [media_type |-> "IMAGE", profile_picture_url |-> <<>>,
             media_url |-> <<[base |-> "https://cdn/v", query |-> <<<<"_nc_rid", "1">>>>]>>]

\* An item of a page: its id and its children, <<>> when it has no children
\* entry and <<data>> when it has one, data being the ids of the children
ChildLists == {<<>>, <<<<>>>>, <<<<"c1">>>>, <<<<"c2", "c1">>>>}
FirstItems == [id : {"m1"}, children : ChildLists]
SecondItems == [id : {"m2"}, children : {<<>>, <<<<"c1">>>>}]

\* The pages the provider delivers for one account
AccountFeeds ==
    {<<<<>>>>} \cup {<<<<a>>>> : a \in FirstItems}
               \cup {<<<<a>>, <<b>>>> : a \in FirstItems, b \in SecondItems}
               \cup {<<<<a, b>>>> : a \in FirstItems, b \in SecondItems}

\* 'yield from instance._queue': the item pulled at a position of the queue
ItemAtMutReversed(q, pos) == q[Len(q) + 1 - pos]
ItemAt(q, pos) == q[pos]

\* An entry of the log: a provider call or an emitted record
MediaEvent(kind, acct, what, id, fields) ==
    [kind |-> kind, acct |-> acct, what |-> what, id |-> id, fields |-> fields]

\* self._clear_url(self._get_single_record(id, fields).export_all_data())
ChildEntry(id) == [id |-> id, data |-> _clear_url(ProviderData(id)).record]

NoItem == [acct |-> 0, id |-> "none", given |-> <<>>, calls |-> <<>>, children |-> <<>>,
           data |-> NoUrlRecord]

\* get_instance_cursor: the first page of the account's edge
MediaCall ==
    /\ md_pc = "account"
    /\ md_acct <= Len(Accounts)
    /\ md_log' = Append(md_log, MediaEvent("call", md_acct,
                            IF md_stream = "Media" THEN "get_media" ELSE "get_stories",
                            "edge", {}))
    /\ md_page' = 1
    /\ md_pos' = 1
    /\ md_pc' = "items"
    /\ md_last' = NoItem
    /\ UNCHANGED <<md_stream, md_fields, md_feed, md_acct>>
    /\ UNCHANGED <<coreVars, accVars, sqVars, snapVars, usVars, ccVars>>

\* One turn of 'for record in media' ('in stories'): the children of a media
\* item are fetched one by one, then the record is yielded
MediaItem ==
    /\ md_pc = "items"
    /\ md_pos <= Len(md_feed[md_acct][md_page])
    /\ LET item == ItemAt(md_feed[md_acct][md_page], md_pos)
           refetch == md_stream = "Media" /\ item.children # <<>>
           ids == IF refetch THEN item.children[1] ELSE <<>>
           calls == [k \in 1..Len(ids) |->
                        MediaEvent("call", md_acct, "api_get", ids[k],
                                   children_fields(md_fields))]
           children == IF refetch
                       THEN <<[k \in 1..Len(ids) |-> ChildEntry(ids[k])]>>
                       ELSE <<>>
           data == _clear_url(ProviderData(item.id)).record
       IN  /\ md_log' = (md_log \o calls) \o
                            <<MediaEvent("record", md_acct, "yield", item.id, {})>>
           /\ md_last' = [acct |-> md_acct, id |-> item.id, given |-> item.children,
                          calls |-> calls, children |-> children, data |-> data]
    /\ md_pos' = md_pos + 1
    /\ UNCHANGED <<md_stream, md_fields, md_feed, md_acct, md_page, md_pc>>
    /\ UNCHANGED <<coreVars, accVars, sqVars, snapVars, usVars, ccVars>>

\* The queue is used up and the cursor has another page: load_next_page
MediaNextPage ==
    /\ md_pc = "items"
    /\ md_pos > Len(md_feed[md_acct][md_page])
    /\ md_page < Len(md_feed[md_acct])
    /\ md_log' = Append(md_log, MediaEvent("call", md_acct, "load_next_page", "edge", {}))
    /\ md_page' = md_page + 1
    /\ md_pos' = 1
    /\ md_last' = NoItem
    /\ UNCHANGED <<md_stream, md_fields, md_feed, md_acct, md_pc>>
    /\ UNCHANGED <<coreVars, accVars, sqVars, snapVars, usVars, ccVars>>

\* The cursor is finished: the next account of self._api.accounts
MediaNextAccount ==
    /\ md_pc = "items"
    /\ md_pos > Len(md_feed[md_acct][md_page])
    /\ md_page = Len(md_feed[md_acct])
    /\ md_acct' = md_acct + 1
    /\ md_pc' = "account"
    /\ md_last' = NoItem
    /\ UNCHANGED <<md_stream, md_fields, md_feed, md_page, md_pos, md_log>>
    /\ UNCHANGED <<coreVars, accVars, sqVars, snapVars, usVars, ccVars>>

\* The accounts are used up: list() returns
MediaDone ==
    /\ md_pc = "account"
    /\ md_acct > Len(Accounts)
    /\ md_pc' = "done"
    /\ md_last' = NoItem
    /\ UNCHANGED <<md_stream, md_fields, md_feed, md_acct, md_page, md_pos, md_log>>
    /\ UNCHANGED <<coreVars, accVars, sqVars, snapVars, usVars, ccVars>>

(***************************************************************************)
(* Square: the stream state of the incremental streams.  The host calls    *)
(* get_updated_state with the state so far and each record it reads.       *)
(* Timestamps are numbers, compared as the RFC 3339 strings compare.       *)
(***************************************************************************)
MaxCursor == 2
MaxRecords == 3

\* get_updated_state(current_stream_state, latest_record): latest_record is
\* the record's value of the cursor field
get_updated_state(current_stream_state, latest_record) ==
    IF current_stream_state # <<>>
    THEN <<Max(current_stream_state[1], latest_record)>>
    ELSE <<us_start>>

\* The host has read a record and updates the state of the stream
UpdateState ==
    /\ Len(us_records) < MaxRecords
    /\ \E cursor \in 0..MaxCursor :
          /\ us_state' = get_updated_state(us_state, cursor)
          /\ us_records' = Append(us_records, cursor)
    /\ UNCHANGED us_start
    /\ UNCHANGED <<coreVars, accVars, sqVars, snapVars, mdVars, ccVars>>

(***************************************************************************)
(* Square: SourceSquare.check_connection.  One GET of /v2/catalog/info on  *)
(* the host the configuration selects.  The transport either delivers a    *)
(* response with a status, or fails without one (requests raises           *)
(* ConnectionError or Timeout, whose response attribute is None).          *)
(***************************************************************************)
MaxChecks == 3
CheckStatuses == {200, 401, 403, 500}
TransportOutcomes ==
    [kind : {"response"}, status : CheckStatuses]
        \cup [kind : {"ConnectionError", "Timeout"}, status : {0}]

NoCheck == [request |-> "none", status |-> 0, ended |-> "none", ok |-> FALSE,
            reason |-> "none"]

\* Response.raise_for_status(): HTTPError for a 4xx or 5xx status
raise_for_status(status) == status >= 400

\* What one call does with the outcome of requests.get.  In the except
\* clause e.response.status_code is read first: with no response that read
\* raises AttributeError out of the handler.
check_connection(sandbox, outcome) ==
    LET url == IF sandbox THEN "connect.squareupsandbox.com" ELSE "connect.squareup.com"
        call == [NoCheck EXCEPT !.request = url, !.status = outcome.status]
    IN  IF outcome.kind = "response" /\ ~raise_for_status(outcome.status)
        THEN [call EXCEPT !.ended = "returned", !.ok = TRUE, !.reason = "None"]
        ELSE IF outcome.kind # "response"
        THEN [call EXCEPT !.ended = "AttributeError"]
        ELSE IF outcome.status = 401
        THEN [call EXCEPT !.ended = "returned",
                          !.reason = "Unauthorized. Check your credentials"]
        ELSE [call EXCEPT !.ended = "returned", !.reason = "HTTPError"]

\* The host checks the connection
CheckConnection ==
    /\ Len(cc_log) < MaxChecks
    /\ \E outcome \in TransportOutcomes :
          /\ lastCheck' = check_connection(cc_sandbox, outcome)
          /\ cc_log' = Append(cc_log, outcome.kind)
    /\ UNCHANGED cc_sandbox
    /\ UNCHANGED <<coreVars, accVars, sqVars, snapVars, mdVars, usVars>>

(***************************************************************************)
(* Properties of the watermark filter (under SpecWatermark).               *)
(***************************************************************************)
FilterCalled == lastFilter.partition # None

\* C1: the stored watermark of a partition never decreases; after a call of
\* state_filter it is max(old watermark, record cursor) when the record was
\* accepted and the old watermark otherwise.
C1_WatermarkNeverDecreases ==
    /\ [](FilterCalled =>
            /\ state[lastFilter.partition] >= lastFilter.old
            /\ state[lastFilter.partition] =
                  IF lastFilter.returned
                  THEN Max(lastFilter.old, lastFilter.cursor)
                  ELSE lastFilter.old)
    /\ [][\A a \in DOMAIN state : a \in DOMAIN state' /\ state'[a] >= state[a]]_vars

\* state_filter accepted a record and the watermark moved up
C1_Witness ==
    /\ FilterCalled
    /\ lastFilter.returned
    /\ state[lastFilter.partition] > lastFilter.old

\* C2: a record whose cursor equals the partition's watermark exactly is
\* dropped (nothing is returned) and the whole watermark map is unchanged.
C2_BoundaryRecordDropped ==
    [][(lastFilter'.partition # None /\ lastFilter'.cursor = lastFilter'.old)
         => (~lastFilter'.returned /\ state' = state)]_vars

\* state_filter was called with a record dated exactly at the watermark
C2_Witness ==
    /\ FilterCalled
    /\ lastFilter.cursor = lastFilter.old
    /\ ~lastFilter.returned

\* C3: state_filter returns the record exactly when its cursor is strictly
\* newer than the stored watermark; then the partition's watermark becomes
\* the record's cursor; for an older cursor nothing is returned and the map
\* is unchanged.
C3_AcceptedIffStrictlyNewer ==
    [][lastFilter'.partition # None =>
         /\ lastFilter'.returned <=> lastFilter'.cursor > lastFilter'.old
         /\ lastFilter'.returned =>
               state' = Put(state, lastFilter'.partition, lastFilter'.cursor)
         /\ lastFilter'.cursor < lastFilter'.old =>
               (~lastFilter'.returned /\ state' = state)]_vars

\* state_filter was called with a record older than the watermark
C3_Witness ==
    /\ FilterCalled
    /\ lastFilter.cursor < lastFilter.old
    /\ ~lastFilter.returned
    /\ state[lastFilter.partition] = lastFilter.old

(***************************************************************************)
(* Properties of pagination, retry and governor (under SpecFetch).         *)
(***************************************************************************)
AllItems == Concat(pages, Len(pages))

\* C4: the sequence pagination() produces is the concatenation of the pages'
\* items in page order, nothing skipped and nothing twice, and no
\* load_next_page is entered once the completion flag is set.
C4_PaginationExhaustive ==
    /\ Len(consumed) <= Len(AllItems)
    /\ consumed = SubSeq(AllItems, 1, Len(consumed))
    /\ pg_pc = "done" => consumed = AllItems
    /\ (pg_pc = "fetching" /\ loaded > 0) => ~finished
    /\ loaded <= Len(pages)

\* the pages [a,b], [c], [] were read to the end
C4_Witness ==
    /\ pg_pc = "done"
    /\ Len(pages) = 3
    /\ Len(pages[1]) = 2 /\ Len(pages[2]) = 1 /\ Len(pages[3]) = 0
    /\ consumed = <<<<1, 1>>, <<1, 2>>, <<2, 1>>>>

\* C5: the request for page n+1 is issued only after the consumer has pulled
\* every item of page n: while a page is being fetched everything loaded so
\* far is consumed, and the consumer is never more than one page behind.
C5_PullDriven ==
    /\ pg_pc = "fetching" => consumed = Concat(pages, loaded)
    /\ loaded > 0 => Len(consumed) >= Len(Concat(pages, loaded - 1))
    /\ loaded > 0 => (Len(consumed) = Len(Concat(pages, loaded - 1)) + qpos /\ queue = pages[loaded])

\* page 2 is being fetched after both items of page 1 were pulled
C5_Witness ==
    /\ pg_pc = "fetching"
    /\ loaded = 1
    /\ transport_calls = 0
    /\ consumed = <<<<1, 1>>, <<1, 2>>>>

\* C6: a wrapped operation that fails transiently k < 7 times and then
\* succeeds is called k + 1 times and its result returned; one that keeps
\* failing transiently is given up after exactly 7 attempts.
C6_RetryBound ==
    /\ lastCall.result = "returned" =>
          (lastCall.attempts = lastCall.failures + 1 /\ lastCall.failures < 7)
    /\ (lastCall.result = "raised" /\ lastAttempt.outcome = "transient") =>
          lastCall.attempts = 7
    /\ inner_tries <= 7 /\ outer_tries <= 7
    /\ (pg_pc = "failed" /\ lastAttempt.outcome = "transient") => outer_tries = 7

\* a call succeeded at its fourth attempt
C6_Witness ==
    /\ lastCall.result = "returned"
    /\ lastCall.failures = 3
    /\ lastCall.attempts = 4

\* C7: an error classified as not retryable leaves the wrapped call after the
\* one attempt that raised it: the read fails at once and no backoff sleep
\* follows the attempt.
C7_NonRetryablePropagates ==
    lastAttempt.outcome = "permanent" =>
        /\ pg_pc = "failed"
        /\ lastCall.result = "raised"
        /\ backoffs = transport_calls - 1

\* the first attempt of a fetch raised an error that is not retryable
C7_Witness ==
    /\ lastAttempt.outcome = "permanent"
    /\ transport_calls = 1
    /\ backoffs = 0
    /\ pg_pc = "failed"

\* C8: the rate-limit check runs after every transport call made through the
\* governed client, also after a call that failed and is about to be retried.
C8_RateCheckAfterEveryCall ==
    lastAttempt.outcome # "none" => lastAttempt.checked

ParsedJson == parsed.called /\ UsageHeader(headers).kind = "json"
NoUsageHeader == parsed.called /\ ~Truthy(UsageHeader(headers))

C10_PauseAsGiven ==
    /\ ParsedJson =>
          LET d == UsageHeader(headers).body
          IN  parsed.pause_interval =
                 IF "estimated_time_to_regain_access" \in DOMAIN d
                 THEN d["estimated_time_to_regain_access"] ELSE 0
    /\ NoUsageHeader => (parsed.call_count = 0 /\ parsed.pause_interval = 0)

\* C10 as claimed: the utilization is call_count when the field is present,
\* otherwise acc_id_util_pct when that is present, otherwise 0.
C10_Original ==
    /\ C10_PauseAsGiven
    /\ ParsedJson =>
          LET d == UsageHeader(headers).body
          IN  parsed.call_count =
                 IF "call_count" \in DOMAIN d THEN d["call_count"]
                 ELSE IF "acc_id_util_pct" \in DOMAIN d THEN d["acc_id_util_pct"]
                 ELSE 0

\* C10 amended: the utilization is call_count when the field is present and
\* not zero, otherwise acc_id_util_pct when that is present and not zero,
\* otherwise 0; the pause is estimated_time_to_regain_access in minutes when
\* present, otherwise zero; without a usage header the result is (0, zero).
C10_FirstNonZeroField ==
    /\ C10_PauseAsGiven
    /\ ParsedJson =>
          LET d == UsageHeader(headers).body
              cc == "call_count" \in DOMAIN d /\ d["call_count"] # 0
              pct == "acc_id_util_pct" \in DOMAIN d /\ d["acc_id_util_pct"] # 0
          IN  /\ cc => parsed.call_count = d["call_count"]
              /\ (~cc /\ pct) => parsed.call_count = d["acc_id_util_pct"]
              /\ (~cc /\ ~pct) => parsed.call_count = 0

\* a header with call_count 0 and acc_id_util_pct 50 was parsed to 50
C10_Witness ==
    /\ ParsedJson
    /\ LET d == UsageHeader(headers).body
       IN  /\ DOMAIN d = {"call_count", "acc_id_util_pct"}
           /\ d["call_count"] = 0
           /\ d["acc_id_util_pct"] = 50
    /\ parsed.call_count = 50

(***************************************************************************)
(* A response with a malformed usage header (under SpecFetch).             *)
(***************************************************************************)
\* C11: a response whose usage header cannot be parsed never makes the
\* governed call fail: the governor takes it as zero utilization and zero
\* pause, does not sleep, and the call returns the response it received.
C11_MalformedHeaderHarmless ==
    lastAttempt.outcome = "ok" =>
        /\ lastCall.result = "returned"
        /\ pg_pc # "failed"

(***************************************************************************)
(* Properties of URL sanitization (under SpecUrl).                         *)
(***************************************************************************)
\* The parameters of a query string that are not volatile, in their order
Kept(query) == Join(SelectSeq(query, LAMBDA q : q[1] \notin Volatile))

\* The URL field after is the URL field before with nothing changed but
\* volatile parameters removed
OnlyVolatileRemoved(before, after) ==
    IF before = <<>>
    THEN after = <<>>
    ELSE /\ after # <<>>
         /\ after[1].base = before[1].base
         /\ Kept(after[1].query) = Kept(before[1].query)
         /\ Len(after[1].query) <= Len(before[1].query)

\* C12: sanitization is idempotent: sanitizing a record that was sanitized
\* yields the same record, sanitize(sanitize(u)) = sanitize(u).
C12_SanitizeIdempotent ==
    url_steps = 2 =>
        /\ ~url_raised
        /\ url_record = url_first

\* C13: for every URL, sanitization removes only the volatile parameters
\* _nc_rid and ccb and returns a URL whose scheme, host, path and other
\* parameters, with their values and order, are unchanged; also for a URL
\* with no query string and for a value that contains '='.
C13_OnlyVolatileRemoved ==
    url_steps = 1 =>
        /\ ~url_raised
        /\ url_record.media_type = url_orig.media_type
        /\ OnlyVolatileRemoved(url_orig.media_url, url_record.media_url)
        /\ OnlyVolatileRemoved(url_orig.profile_picture_url, url_record.profile_picture_url)

(***************************************************************************)
(* Properties of the merge of metric entries (under SpecMerge).            *)
(***************************************************************************)
\* The field an entry of the given name and period is expected under
FieldOf(name, period) ==
    CASE name = "impressions" /\ period = "week" -> "impressions_week"
      [] name = "impressions" /\ period = "days_28" -> "impressions_days_28"
      [] name = "reach" /\ period = "week" -> "reach_week"
      [] name = "reach" /\ period = "days_28" -> "reach_days_28"
      [] OTHER -> name

\* The positions of merge_list whose entries belong under the given field
EntriesOf(field) ==
    {j \in 1..Len(merge_list) : FieldOf(merge_list[j].name, merge_list[j].period) = field}

\* C14: the merge stores an entry of period week or days_28 under
\* name_period and an entry of any other period under name alone, so the
\* weekly, the 28-day and the daily entry of one metric have three fields of
\* their own and none overwrites another: every field holds the value of the
\* last entry that belongs under it.
C14_MergeKeys ==
    merge_record # EmptyMap =>
        /\ DOMAIN merge_record =
              {"page_id", "business_account_id", "date"}
                 \cup {FieldOf(merge_list[i].name, merge_list[i].period) :
                          i \in 1..Len(merge_list)}
        /\ \A i \in 1..Len(merge_list) :
              LET field == FieldOf(merge_list[i].name, merge_list[i].period)
                  last == CHOOSE j \in EntriesOf(field) :
                              \A k \in EntriesOf(field) : k <= j
              IN  merge_record[field] = merge_list[last].value

\* the daily, weekly and 28-day impressions merged, each with its own value
C14_Witness ==
    /\ Len(merge_list) = 3
    /\ \A i \in 1..3 : merge_list[i].name = "impressions"
    /\ merge_list[1].period = "day" /\ merge_list[1].value = 7
    /\ merge_list[2].period = "week" /\ merge_list[2].value = 8
    /\ merge_list[3].period = "days_28" /\ merge_list[3].value = 9
    /\ merge_record # EmptyMap
    /\ merge_record["impressions"] = 7
    /\ merge_record["impressions_week"] = 8
    /\ merge_record["impressions_days_28"] = 9

(***************************************************************************)
(* Properties of the insight streams (under SpecInsights).                 *)
(***************************************************************************)
\* C15: for each media item the metric set of the insight request is decided
\* from media_type before the request is issued: a VIDEO is asked for the
\* media metrics and video_views, a CAROUSEL_ALBUM for exactly the carousel
\* metrics, any other type for exactly the media metrics; whatever the
\* provider then answers.
C15_MetricsByMediaType ==
    lastInsight.stream = "media" =>
        lastInsight.metrics =
            CASE lastInsight.media_type = "VIDEO" ->
                    <<"engagement", "impressions", "reach", "saved", "video_views">>
              [] lastInsight.media_type = "CAROUSEL_ALBUM" ->
                    <<"carousel_album_engagement", "carousel_album_impressions",
                      "carousel_album_reach", "carousel_album_saved">>
              [] OTHER -> <<"engagement", "impressions", "reach", "saved">>

\* a video was asked for video_views, and the provider answered with an error
C15_Witness ==
    /\ lastInsight.stream = "media"
    /\ lastInsight.media_type = "VIDEO"
    /\ lastInsight.metrics[5] = "video_views"
    /\ lastInsight.error # <<>>

C17_OneDayThenNothing ==
    /\ ui_pc = "done" => \A a \in seen : state[a] = provider.day
    /\ run = 2 => ~lastFilter.returned

\* the second run has ended: it was given the record of day D again, and
\* D is later than the start-date floor
C17_Witness ==
    /\ run = 2
    /\ ui_pc = "done"
    /\ seen = AccountIds
    /\ provider.day > start_date
    /\ \A a \in AccountIds : state[a] = provider.day

\* The windows of an account, in the terms of C18
WindowShape ==
    (lastWindow.account # None /\ ~lastWindow.failed) =>
        /\ Len(lastWindow.requests) = 4
        /\ lastWindow.requests[1].period = "day"
        /\ lastWindow.requests[2].period = "week"
        /\ lastWindow.requests[3].period = "days_28"
        /\ lastWindow.requests[4].period = "lifetime"
        /\ \A i \in 1..4 :
              /\ lastWindow.requests[i].since = buffered_start_date - 1
              /\ lastWindow.requests[i].until = lastWindow.requests[i].since + 1
              /\ lastWindow.requests[i].since <= Now
        /\ lastWindow.merged <= 1
        /\ lastWindow.filtered = lastWindow.merged
        /\ FilterCalled <=> lastWindow.filtered = 1
WindowOrder ==
    LET account_id == Accounts[account_idx].id
    IN  /\ (ui_pc = "account" /\ ui_pc' = "windows") =>
              buffered_start_date' =
                  Max(IF Has(state, account_id) THEN state[account_id] ELSE start_date,
                      Now - 29)
        /\ (ui_pc = "windows" /\ ui_pc' = "windows") =>
              /\ lastWindow'.requests[1].since = buffered_start_date
              /\ buffered_start_date' = buffered_start_date + 1
        /\ (ui_pc = "windows" /\ ui_pc' = "account") => buffered_start_date > Now

\* C18: for each account the windows are consecutive days, starting at
\* max(stored watermark, now - 29 days), the start-date floor standing in for
\* a watermark that is not stored, and going on while the window start is
\* not after the end date; each window issues exactly one request per
\* period day, week, days_28, lifetime; its results are merged into at most
\* one record, and the filter is applied once, to that record.
C18_WindowsAndRequests == []WindowShape /\ [][WindowOrder]_vars

\* the window of today: four requests, one merged record, accepted
C18_Witness ==
    /\ lastWindow.account # None
    /\ Len(lastWindow.requests) = 4
    /\ lastWindow.requests[4].since = Now
    /\ lastWindow.merged = 1
    /\ lastFilter.returned

\* The first comparison of the filter for a partition that had no stored
\* watermark when list() came to its account
FirstComparisonOfFresh ==
    /\ FilterCalled
    /\ lastFilter.first
    /\ lastFilter.partition \in fresh

C20_FailureKeepsWatermarks ==
    [][/\ (ui_pc # "failed" /\ ui_pc' = "failed") =>
             /\ state' = state
             /\ state_getter(state') = state_getter(state)
       /\ ui_pc = "failed" => ui_pc' = "failed"]_vars

\* the third request of a window failed after a record of the same account
\* had been accepted and had advanced the watermark
C20_Witness ==
    /\ ui_pc = "failed"
    /\ Len(lastWindow.requests) = 3
    /\ lastWindow.account \in seen
    /\ state[lastWindow.account] > Max(start_date, Now - 29)
    /\ lastWindow.account \in fresh

(***************************************************************************)
(* Properties of account discovery (under SpecAccounts).                   *)
(***************************************************************************)
NoPageQualifies == \A i \in 1..Len(acc_pages) : ~acc_pages[i]

\* C21: when no Instagram business account qualifies, InstagramAPIException
\* is raised before any stream issues a data-fetch call or emits a record;
\* and a provider error during the discovery leaves as InstagramAPIException
\* too: discovery never ends in another exception, nor in an empty list.
C21_NoAccountIsConfigError ==
    /\ NoPageQualifies =>
          /\ acc_data_calls = 0
          /\ acc_emitted = 0
          /\ acc_pc # "cached"
          /\ (acc_pc = "pages" /\ acc_i > Len(acc_pages)) => acc_found = <<>>
    /\ acc_pc = "cached" => acc_found # <<>>
    /\ acc_pc = "raised" <=> acc_exc = "InstagramAPIException"
    /\ acc_exc \in {"none", "InstagramAPIException"}
    /\ acc_data_calls > 0 => acc_pc = "cached"

\* the second stream met the configuration error as the first had: three
\* pages, none with a business account
C21_Witness ==
    /\ Len(acc_pages) = 3
    /\ NoPageQualifies
    /\ acc_stream = 2
    /\ acc_i > Len(acc_pages)
    /\ acc_pc = "raised"
    /\ acc_exc = "InstagramAPIException"

(***************************************************************************)
(* Properties of the Square read loop (under SpecSquare).                  *)
(***************************************************************************)
\* C22: every HTTP error response ends _send_request with an exception
\* raised to the caller, SquareException or the original HTTPError; it
\* never returns normally without a response. (Violated: an error body
\* that is JSON without an "errors" entry makes it return None.)
C22_HttpErrorAlwaysRaises ==
    lastSend.http_error => lastSend.result \in {"SquareException", "HTTPError"}

\* C29: after a response, the page token is {cursor: c} exactly when the
\* body carries a non-empty cursor c, and nothing (the read ends) when the
\* cursor is absent or empty.
C29_TokenIffCursor ==
    lastSend.result = "response" =>
        LET cursor == BodyOf(sq_provider, lastRequest.page).cursor
        IN  /\ cursor.kind = "value" =>
                  /\ sq_token = <<[cursor |-> cursor.value]>>
                  /\ sq_pc = "request"
            /\ cursor.kind \in {"absent", "empty"} =>
                  /\ sq_token = <<>>
                  /\ sq_pc = "done"
C29_Witness ==
    /\ lastSend.result = "response"
    /\ BodyOf(sq_provider, lastRequest.page).cursor.kind = "empty"
    /\ Len(sq_served) > 1
    /\ sq_pc = "done"

\* C30: for Refunds and Payments, the request for every page after the
\* first carries the cursor of the previous response (and begin_time when
\* the state has the cursor field), so that no two consecutive requests ask
\* for the same page. (Violated: the request after the first page carries
\* sort_order only, and the first page is served again.)
C30_NextPageCarriesCursor ==
    sq_stream \in {"Payments", "Refunds"} =>
        /\ lastRequest.token # <<>> =>
              /\ lastRequest.params.cursor = <<lastRequest.token[1].cursor>>
              /\ sq_state # <<>> => lastRequest.params.begin_time = sq_state
        /\ \A i \in 1..(Len(sq_served) - 1) : sq_served[i] # sq_served[i + 1]

C24_OnlyFilterChangesWatermark ==
    [][ui_pc # "init" =>
          \A a \in DOMAIN state' :
             (a \notin DOMAIN state \/ state'[a] # state[a]) =>
                 /\ lastFilter'.partition = a
                 /\ lastFilter'.returned]_vars

\* C25: state_filter on a record of partition P leaves the watermark of
\* every other partition as it was, and no step removes a partition from
\* the watermark map.
C25_OtherPartitionsUntouched ==
    [][/\ DOMAIN state \subseteq DOMAIN state'
       /\ lastFilter' # NoFilter =>
             \A a \in DOMAIN state \ {lastFilter'.partition} : state'[a] = state[a]]_vars
C25_Witness ==
    /\ lastFilter.partition = "acc2"
    /\ lastFilter.returned
    /\ DOMAIN state = AccountIds
    /\ state["acc1"] # state["acc2"]

(***************************************************************************)
(* Properties of Media.list and Stories.list (under SpecMedia).            *)
(***************************************************************************)
NoRid(url) == \A i \in 1..Len(url.query) : url.query[i][1] # "_nc_rid"

\* The sanitized form of what the provider holds: the same object, and the
\* media_url of a video without its _nc_rid parameter
SanitizedFrom(data, given) ==
    /\ data.media_type = given.media_type
    /\ data.profile_picture_url = given.profile_picture_url
    /\ (data.media_url = <<>>) = (given.media_url = <<>>)
    /\ (given.media_type = "VIDEO" /\ given.media_url # <<>>) =>
          /\ NoRid(data.media_url[1])
          /\ data.media_url[1].base = given.media_url[1].base
          /\ data.media_url[1].query =
                Join(SelectSeq(given.media_url[1].query, LAMBDA q : q[1] # "_nc_rid"))
    /\ given.media_type # "VIDEO" => data.media_url = given.media_url

\* C26: a media item with a children entry has each child fetched on its
\* own, in the provider's order, with the stream's fields minus caption,
\* comments_count, is_comment_enabled, like_count and children; the record
\* carries one sanitized entry per child, in the same order.
C26_ChildrenRefetched ==
    (md_stream = "Media" /\ md_last.id # "none" /\ md_last.given # <<>>) =>
        LET ids == md_last.given[1]
            n == Len(md_log)
        IN  /\ Len(md_last.calls) = Len(ids)
            /\ SubSeq(md_log, n - Len(ids), n - 1) = md_last.calls
            /\ \A k \in 1..Len(ids) :
                  /\ md_last.calls[k].what = "api_get"
                  /\ md_last.calls[k].id = ids[k]
                  /\ md_last.calls[k].fields \cap INVALID_CHILDREN_FIELDS = {}
                  /\ md_last.calls[k].fields = md_fields \ INVALID_CHILDREN_FIELDS
            /\ md_last.children # <<>>
            /\ Len(md_last.children[1]) = Len(ids)
            /\ \A k \in 1..Len(ids) :
                  /\ md_last.children[1][k].id = ids[k]
                  /\ SanitizedFrom(md_last.children[1][k].data, ProviderData(ids[k]))
C26_Witness ==
    /\ md_stream = "Media"
    /\ md_last.given = <<<<"c2", "c1">>>>
    /\ Len(md_last.children[1]) = 2
    /\ "caption" \in md_fields

\* The ids of the items of a feed, page after page
RECURSIVE FeedIds(_)
FeedIds(feed) ==
    IF feed = <<>> THEN <<>>
    ELSE [k \in 1..Len(Head(feed)) |-> Head(feed)[k].id] \o FeedIds(Tail(feed))

\* The ids of the records emitted for an account, in the order of emission
EmittedIds(acct) ==
    LET records == SelectSeq(md_log, LAMBDA e : e.kind = "record" /\ e.acct = acct)
    IN  [k \in 1..Len(records) |-> records[k].id]

\* C27: the records of an account are emitted in the order the provider
\* delivers its items, and the accounts are processed one after another in
\* the order of the list: no record or call of an account follows a
\* provider call of a later account.
C27_ProviderOrderAccountByAccount ==
    /\ \A acct \in 1..Len(Accounts) :
          LET ids == EmittedIds(acct)
          IN  /\ Len(ids) <= Len(FeedIds(md_feed[acct]))
              /\ ids = SubSeq(FeedIds(md_feed[acct]), 1, Len(ids))
    /\ \A p \in 1..Len(md_log) : \A q \in p..Len(md_log) :
          md_log[p].acct <= md_log[q].acct
C27_Witness ==
    /\ md_pc = "done"
    /\ Len(md_feed[1]) = 2
    /\ EmittedIds(1) = <<"m1", "m2">>
    /\ Len(md_feed[2][1]) = 2
    /\ EmittedIds(2) = <<"m1", "m2">>

(***************************************************************************)
(* Failure in the middle of a paginated read (under SpecFetch).            *)
(***************************************************************************)
\* C28: when the fetch of a page fails for good, the consumer has received
\* exactly the items of the pages loaded before it, in order; the failure
\* ends the sequence: nothing is delivered and nothing is fetched afterwards.
C28_FailureAfterWholePages ==
    /\ [](pg_pc = "failed" =>
             /\ consumed = Concat(pages, loaded)
             /\ loaded < Len(pages)
             /\ lastCall.result = "raised")
    /\ [][pg_pc = "failed" =>
             /\ pg_pc' = "failed"
             /\ consumed' = consumed
             /\ loaded' = loaded]_vars
C28_Witness ==
    /\ pg_pc = "failed"
    /\ loaded = 2
    /\ Len(pages) = 3
    /\ consumed = <<<<1, 1>>, <<1, 2>>, <<2, 1>>>>
    /\ lastAttempt.outcome = "permanent"

(***************************************************************************)
(* Further properties of the Square read loop (under SpecSquare).          *)
(***************************************************************************)
\* C31: a read from a provider that holds finitely many pages asks for each
\* page exactly once, in order, and stops on the response without a
\* cursor: the i-th request is served page i, there are never more requests
\* than pages, and a read that is done has asked for all of them.
\* (Violated: Payments and Refunds ask for the first page again and again.)
C31_EachPageOnce ==
    /\ Len(sq_served) <= sq_provider.pages
    /\ \A i \in 1..Len(sq_served) : sq_served[i] = i
    /\ sq_pc = "done" => Len(sq_served) = sq_provider.pages

(***************************************************************************)
(* The stream state of the incremental Square streams (SpecSquareState).   *)
(***************************************************************************)
RECURSIVE MaxOf(_, _)
\* the largest of a value and the values of a sequence
MaxOf(v, list) == IF list = <<>> THEN v ELSE MaxOf(Max(v, Head(list)), Tail(list))

\* C32: once records were processed from an empty state, the stored cursor
\* is the maximum of the start date and the cursor values of all of them,
\* the first included.  (Violated: the first call stores the start date and
\* ignores its record.)
C32_StateIsMaximum ==
    us_records # <<>> => us_state = <<MaxOf(us_start, us_records)>>

(***************************************************************************)
(* Resuming from the stored cursor (under SpecSquare).                     *)
(***************************************************************************)
\* C33: every request of an incremental stream, for the first page and for
\* the following ones, carries begin_time equal to the cursor of the
\* incoming state, and no begin_time when the state has none.  (Violated:
\* the requests of Payments and Refunds after the first page carry none.)
C33_BeginTimeOnEveryRequest ==
    (sq_stream \in {"Payments", "Refunds", "Items"} /\ lastRequest.page > 0) =>
        lastRequest.params.begin_time = sq_state

(***************************************************************************)
(* The two retry policies around one fetch (under SpecFetch).              *)
(***************************************************************************)
\* C34: a page fetch that keeps failing with a retryable error calls the
\* underlying transport at most max_tries times before the error
\* propagates.  (Violated: the policy around the stream method starts the
\* policy around call() anew, up to max_tries times max_tries calls.)
C34_TransportCallsWithinMaxTries ==
    transport_calls <= max_tries

(***************************************************************************)
(* The default pause of the governor (under SpecFetch).                    *)
(***************************************************************************)
\* MyFacebookAdsApi.pause_interval, in minutes
default_pause_interval == 1

\* C35: when the reported utilization is above the threshold and the usage
\* header gives no estimated time to regain access, the governor pauses
\* for the default pause interval of one minute.  (Violated: it sleeps for
\* the parsed interval, which is zero.)
C35_DefaultPause ==
    (lastAttempt.checked /\ lastAttempt.call_count > call_rate_threshold
                         /\ lastAttempt.pause_interval = 0) =>
        lastAttempt.slept = <<60 * default_pause_interval>>

(***************************************************************************)
(* Emission and retries of the insight streams (under SpecInsights).       *)
(***************************************************************************)
\* the records emitted so far name each item at most once
EmittedOnce ==
    \A i \in 1..Len(ins_emitted) : \A j \in 1..Len(ins_emitted) :
       ins_emitted[i] = ins_emitted[j] => i = j

\* C36: StoriesInsights emits one record for each story whose insight
\* fetch returned a non-empty set and none for a story whose insights are
\* empty or whose fetch failed with code 10, and goes on with the next
\* story; list() fails only when an insight fetch raised another error.
\* (Violated: the list() of streams.py raises TypeError before it reads any
\* story, and emits nothing.)
C36_OneRecordPerStory ==
    ins_stream = "stories" =>
        /\ EmittedOnce
        /\ (lastInsight.outcome = "returned" /\ lastInsight.insights = "some") =>
              /\ ins_emitted # <<>>
              /\ ins_emitted[Len(ins_emitted)] = <<ins_acct, ins_idx - 1>>
              /\ ins_pc = "list"
        /\ (\/ lastInsight.outcome = "returned" /\ lastInsight.insights = "empty"
            \/ lastInsight.outcome = "recovered") =>
              /\ \A i \in 1..Len(ins_emitted) : ins_emitted[i] # <<ins_acct, ins_idx - 1>>
              /\ ins_pc = "list"
        /\ ins_pc = "failed" => lastInsight.outcome = "raised"

\* C37: when the insight fetch of a media item fails with subcode 2108006,
\* the loop over the account's media is left: the records emitted so far
\* stand, the next step belongs to the next account, and no insight request
\* is made and no record emitted for a later item of the account.
C37_BreakOnBenignMediaError ==
    /\ [](ins_stream = "media" =>
             /\ EmittedOnce
             /\ \A i \in 1..Len(ins_emitted) :
                   \/ ins_emitted[i][1] < ins_acct
                   \/ ins_emitted[i][1] = ins_acct /\ ins_emitted[i][2] < ins_idx)
    /\ [][(ins_stream = "media" /\ lastInsight'.outcome = "recovered") =>
             /\ ins_acct' = ins_acct + 1
             /\ ins_idx' = 1
             /\ ins_emitted' = ins_emitted
             /\ ins_pc' = "list"]_vars
C37_Witness ==
    /\ ins_stream = "media"
    /\ lastInsight.outcome = "recovered"
    /\ ins_acct = 3
    /\ ins_emitted = <<<<1, 1>>>>
    /\ Len(ins_items[1]) = 2
    /\ Len(ins_items[2]) = 2

C39_EmittedDatesIncrease ==
    [][lastFilter'.partition # None =>
          LET p == lastFilter'.partition
          IN  /\ p \in DOMAIN state
              /\ lastFilter'.returned =>
                    /\ p \in DOMAIN last_emitted => lastFilter'.cursor > last_emitted[p]
                    /\ p \in DOMAIN run_start => lastFilter'.cursor > run_start[p]
                    /\ last_emitted'[p] = lastFilter'.cursor]_vars
\* the second record of a run for a partition that had a stored watermark
C39_Witness ==
    /\ lastFilter.returned
    /\ lastFilter.partition \in DOMAIN run_start
    /\ run_start[lastFilter.partition] = Now - 1
    /\ lastFilter.old = Now
    /\ lastFilter.cursor > Now
    /\ last_emitted[lastFilter.partition] = lastFilter.cursor

(***************************************************************************)
(* Square: the connection check (under SpecCheck).                         *)
(***************************************************************************)
\* C40: check_connection never raises and always returns a pair:
\* (True, None) on a successful response, (False, "Unauthorized. Check your
\* credentials") on status 401, (False, error) for every other request
\* failure, those without an HTTP response included.
C40_AlwaysReturnsPair ==
    lastCheck.request # "none" =>
        /\ lastCheck.ended = "returned"
        /\ lastCheck.ok = (cc_log[Len(cc_log)] = "response" /\ lastCheck.status < 400)
        /\ lastCheck.ok => lastCheck.reason = "None"
        /\ lastCheck.status = 401 =>
              lastCheck.reason = "Unauthorized. Check your credentials"
        /\ ~lastCheck.ok /\ lastCheck.status # 401 => lastCheck.reason = "HTTPError"

(***************************************************************************)
(* Specifications.                                                         *)
(***************************************************************************)
\* UserInsights.list over the connected accounts
InitWatermark ==
    /\ state = EmptyMap
    /\ ui_pc = "init"
    /\ account_idx = 1
    /\ buffered_start_date = 0
    /\ start_date \in StartDates
    /\ lastFilter = NoFilter
    /\ provider = AnyProvider
    /\ run = 1
    /\ seen = {}
    /\ fresh = {}
    /\ lastWindow = NoWindow
    /\ run_start = EmptyMap
    /\ last_emitted = EmptyMap
    /\ pages = <<>>
    /\ loaded = 0
    /\ queue = <<>>
    /\ finished = FALSE
    /\ qpos = 0
    /\ pg_pc = "new"
    /\ consumed = <<>>
    /\ outer_tries = 0
    /\ inner_tries = 0
    /\ backoffs = 0
    /\ transport_calls = 0
    /\ lastAttempt = NoAttempt
    /\ lastCall = NoCall
    /\ headers = OneHeader(HeaderNames[1], HAbsent)
    /\ parsed = NoParse
    /\ url_orig = NoUrlRecord
    /\ url_record = NoUrlRecord
    /\ url_first = NoUrlRecord
    /\ url_steps = 0
    /\ url_raised = FALSE
    /\ url_impl = "none"
    /\ merge_list = <<>>
    /\ merge_record = EmptyMap
    /\ ins_stream = "media"
    /\ ins_impl = "streams"
    /\ ins_items = <<>>
    /\ ins_acct = 1
    /\ ins_idx = 1
    /\ ins_pc = "list"
    /\ ins_tries = 0
    /\ ins_backoffs = 0
    /\ ins_emitted = <<>>
    /\ lastInsight = NoInsight
    /\ acc_pages = <<>>
    /\ acc_pc = "idle"
    /\ acc_i = 1
    /\ acc_found = <<>>
    /\ acc_exc = "none"
    /\ acc_stream = 1
    /\ acc_data_calls = 0
    /\ acc_emitted = 0
    /\ sq_stream = "Payments"
    /\ sq_state = <<>>
    /\ sq_provider = [pages |-> 1, last |-> "absent"]
    /\ sq_token = <<>>
    /\ sq_pc = "request"
    /\ sq_served = <<>>
    /\ lastRequest = NoRequest
    /\ lastSend = NoSend
    /\ snap_state = EmptyMap
    /\ snap_value = EmptyMap
    /\ snap_restored = EmptyMap
    /\ snap_pc = "live"
    /\ md_stream = "Media"
    /\ md_fields = {}
    /\ md_feed = <<>>
    /\ md_acct = 1
    /\ md_page = 1
    /\ md_pos = 1
    /\ md_pc = "account"
    /\ md_log = <<>>
    /\ md_last = NoItem
    /\ us_start = 0
    /\ us_state = <<>>
    /\ us_records = <<>>
    /\ cc_sandbox = FALSE
    /\ cc_log = <<>>
    /\ lastCheck = NoCheck

NextWatermark ==
    \/ SetState
    \/ EnterAccount
    \/ Window
    \/ WindowFails
    \/ NextAccount
    \/ ListDone

SpecWatermark == InitWatermark /\ [][NextWatermark]_vars

\* Two runs of UserInsights.list against a provider that has data for one day
InitRuns ==
    /\ state = EmptyMap
    /\ ui_pc = "init"
    /\ account_idx = 1
    /\ buffered_start_date = 0
    /\ start_date \in StartDates
    /\ lastFilter = NoFilter
    /\ provider \in OneDayProviders
    /\ run = 1
    /\ seen = {}
    /\ fresh = {}
    /\ lastWindow = NoWindow
    /\ run_start = EmptyMap
    /\ last_emitted = EmptyMap
    /\ pages = <<>>
    /\ loaded = 0
    /\ queue = <<>>
    /\ finished = FALSE
    /\ qpos = 0
    /\ pg_pc = "new"
    /\ consumed = <<>>
    /\ outer_tries = 0
    /\ inner_tries = 0
    /\ backoffs = 0
    /\ transport_calls = 0
    /\ lastAttempt = NoAttempt
    /\ lastCall = NoCall
    /\ headers = OneHeader(HeaderNames[1], HAbsent)
    /\ parsed = NoParse
    /\ url_orig = NoUrlRecord
    /\ url_record = NoUrlRecord
    /\ url_first = NoUrlRecord
    /\ url_steps = 0
    /\ url_raised = FALSE
    /\ url_impl = "none"
    /\ merge_list = <<>>
    /\ merge_record = EmptyMap
    /\ ins_stream = "media"
    /\ ins_impl = "streams"
    /\ ins_items = <<>>
    /\ ins_acct = 1
    /\ ins_idx = 1
    /\ ins_pc = "list"
    /\ ins_tries = 0
    /\ ins_backoffs = 0
    /\ ins_emitted = <<>>
    /\ lastInsight = NoInsight
    /\ acc_pages = <<>>
    /\ acc_pc = "idle"
    /\ acc_i = 1
    /\ acc_found = <<>>
    /\ acc_exc = "none"
    /\ acc_stream = 1
    /\ acc_data_calls = 0
    /\ acc_emitted = 0
    /\ sq_stream = "Payments"
    /\ sq_state = <<>>
    /\ sq_provider = [pages |-> 1, last |-> "absent"]
    /\ sq_token = <<>>
    /\ sq_pc = "request"
    /\ sq_served = <<>>
    /\ lastRequest = NoRequest
    /\ lastSend = NoSend
    /\ snap_state = EmptyMap
    /\ snap_value = EmptyMap
    /\ snap_restored = EmptyMap
    /\ snap_pc = "live"
    /\ md_stream = "Media"
    /\ md_fields = {}
    /\ md_feed = <<>>
    /\ md_acct = 1
    /\ md_page = 1
    /\ md_pos = 1
    /\ md_pc = "account"
    /\ md_log = <<>>
    /\ md_last = NoItem
    /\ us_start = 0
    /\ us_state = <<>>
    /\ us_records = <<>>
    /\ cc_sandbox = FALSE
    /\ cc_log = <<>>
    /\ lastCheck = NoCheck

NextRuns ==
    \/ SetState
    \/ EnterAccount
    \/ Window
    \/ NextAccount
    \/ ListDone
    \/ Restart

SpecRuns == InitRuns /\ [][NextRuns]_vars

\* One read of a paginated edge, pulled by a consumer
InitFetch ==
    /\ state = EmptyMap
    /\ ui_pc = "init"
    /\ account_idx = 1
    /\ buffered_start_date = 0
    /\ start_date = Now
    /\ lastFilter = NoFilter
    /\ provider = AnyProvider
    /\ run = 1
    /\ seen = {}
    /\ fresh = {}
    /\ lastWindow = NoWindow
    /\ run_start = EmptyMap
    /\ last_emitted = EmptyMap
    /\ pages \in ProviderPages
    /\ loaded = 0
    /\ queue = <<>>
    /\ finished = FALSE
    /\ qpos = 0
    /\ pg_pc = "new"
    /\ consumed = <<>>
    /\ outer_tries = 0
    /\ inner_tries = 0
    /\ backoffs = 0
    /\ transport_calls = 0
    /\ lastAttempt = NoAttempt
    /\ lastCall = NoCall
    /\ headers = OneHeader(HeaderNames[1], HAbsent)
    /\ parsed = NoParse
    /\ url_orig = NoUrlRecord
    /\ url_record = NoUrlRecord
    /\ url_first = NoUrlRecord
    /\ url_steps = 0
    /\ url_raised = FALSE
    /\ url_impl = "none"
    /\ merge_list = <<>>
    /\ merge_record = EmptyMap
    /\ ins_stream = "media"
    /\ ins_impl = "streams"
    /\ ins_items = <<>>
    /\ ins_acct = 1
    /\ ins_idx = 1
    /\ ins_pc = "list"
    /\ ins_tries = 0
    /\ ins_backoffs = 0
    /\ ins_emitted = <<>>
    /\ lastInsight = NoInsight
    /\ acc_pages = <<>>
    /\ acc_pc = "idle"
    /\ acc_i = 1
    /\ acc_found = <<>>
    /\ acc_exc = "none"
    /\ acc_stream = 1
    /\ acc_data_calls = 0
    /\ acc_emitted = 0
    /\ sq_stream = "Payments"
    /\ sq_state = <<>>
    /\ sq_provider = [pages |-> 1, last |-> "absent"]
    /\ sq_token = <<>>
    /\ sq_pc = "request"
    /\ sq_served = <<>>
    /\ lastRequest = NoRequest
    /\ lastSend = NoSend
    /\ snap_state = EmptyMap
    /\ snap_value = EmptyMap
    /\ snap_restored = EmptyMap
    /\ snap_pc = "live"
    /\ md_stream = "Media"
    /\ md_fields = {}
    /\ md_feed = <<>>
    /\ md_acct = 1
    /\ md_page = 1
    /\ md_pos = 1
    /\ md_pc = "account"
    /\ md_log = <<>>
    /\ md_last = NoItem
    /\ us_start = 0
    /\ us_state = <<>>
    /\ us_records = <<>>
    /\ cc_sandbox = FALSE
    /\ cc_log = <<>>
    /\ lastCheck = NoCheck

NextFetch ==
    \/ PullFirst
    \/ PullItem
    \/ PullNextPage
    \/ PullDone
    \/ TransportOk
    \/ TransportError

SpecFetch == InitFetch /\ [][NextFetch]_vars

\* parse_call_rate_header applied to every combination of usage headers
InitParse ==
    /\ state = EmptyMap
    /\ ui_pc = "init"
    /\ account_idx = 1
    /\ buffered_start_date = 0
    /\ start_date = Now
    /\ lastFilter = NoFilter
    /\ provider = AnyProvider
    /\ run = 1
    /\ seen = {}
    /\ fresh = {}
    /\ lastWindow = NoWindow
    /\ run_start = EmptyMap
    /\ last_emitted = EmptyMap
    /\ pages = <<>>
    /\ loaded = 0
    /\ queue = <<>>
    /\ finished = FALSE
    /\ qpos = 0
    /\ pg_pc = "new"
    /\ consumed = <<>>
    /\ outer_tries = 0
    /\ inner_tries = 0
    /\ backoffs = 0
    /\ transport_calls = 0
    /\ lastAttempt = NoAttempt
    /\ lastCall = NoCall
    /\ headers \in [HeaderNameSet -> HeaderValues]
    /\ parsed = NoParse
    /\ url_orig = NoUrlRecord
    /\ url_record = NoUrlRecord
    /\ url_first = NoUrlRecord
    /\ url_steps = 0
    /\ url_raised = FALSE
    /\ url_impl = "none"
    /\ merge_list = <<>>
    /\ merge_record = EmptyMap
    /\ ins_stream = "media"
    /\ ins_impl = "streams"
    /\ ins_items = <<>>
    /\ ins_acct = 1
    /\ ins_idx = 1
    /\ ins_pc = "list"
    /\ ins_tries = 0
    /\ ins_backoffs = 0
    /\ ins_emitted = <<>>
    /\ lastInsight = NoInsight
    /\ acc_pages = <<>>
    /\ acc_pc = "idle"
    /\ acc_i = 1
    /\ acc_found = <<>>
    /\ acc_exc = "none"
    /\ acc_stream = 1
    /\ acc_data_calls = 0
    /\ acc_emitted = 0
    /\ sq_stream = "Payments"
    /\ sq_state = <<>>
    /\ sq_provider = [pages |-> 1, last |-> "absent"]
    /\ sq_token = <<>>
    /\ sq_pc = "request"
    /\ sq_served = <<>>
    /\ lastRequest = NoRequest
    /\ lastSend = NoSend
    /\ snap_state = EmptyMap
    /\ snap_value = EmptyMap
    /\ snap_restored = EmptyMap
    /\ snap_pc = "live"
    /\ md_stream = "Media"
    /\ md_fields = {}
    /\ md_feed = <<>>
    /\ md_acct = 1
    /\ md_page = 1
    /\ md_pos = 1
    /\ md_pc = "account"
    /\ md_log = <<>>
    /\ md_last = NoItem
    /\ us_start = 0
    /\ us_state = <<>>
    /\ us_records = <<>>
    /\ cc_sandbox = FALSE
    /\ cc_log = <<>>
    /\ lastCheck = NoCheck

NextParse == Parse

SpecParse == InitParse /\ [][NextParse]_vars

\* A record sanitized once and then once more, by either implementation
InitUrl ==
    /\ state = EmptyMap
    /\ ui_pc = "init"
    /\ account_idx = 1
    /\ buffered_start_date = 0
    /\ start_date = Now
    /\ lastFilter = NoFilter
    /\ provider = AnyProvider
    /\ run = 1
    /\ seen = {}
    /\ fresh = {}
    /\ lastWindow = NoWindow
    /\ run_start = EmptyMap
    /\ last_emitted = EmptyMap
    /\ pages = <<>>
    /\ loaded = 0
    /\ queue = <<>>
    /\ finished = FALSE
    /\ qpos = 0
    /\ pg_pc = "new"
    /\ consumed = <<>>
    /\ outer_tries = 0
    /\ inner_tries = 0
    /\ backoffs = 0
    /\ transport_calls = 0
    /\ lastAttempt = NoAttempt
    /\ lastCall = NoCall
    /\ headers = OneHeader(HeaderNames[1], HAbsent)
    /\ parsed = NoParse
    /\ url_orig \in UrlRecords
    /\ url_record = url_orig
    /\ url_first = url_orig
    /\ url_steps = 0
    /\ url_raised = FALSE
    /\ url_impl = "none"
    /\ merge_list = <<>>
    /\ merge_record = EmptyMap
    /\ ins_stream = "media"
    /\ ins_impl = "streams"
    /\ ins_items = <<>>
    /\ ins_acct = 1
    /\ ins_idx = 1
    /\ ins_pc = "list"
    /\ ins_tries = 0
    /\ ins_backoffs = 0
    /\ ins_emitted = <<>>
    /\ lastInsight = NoInsight
    /\ acc_pages = <<>>
    /\ acc_pc = "idle"
    /\ acc_i = 1
    /\ acc_found = <<>>
    /\ acc_exc = "none"
    /\ acc_stream = 1
    /\ acc_data_calls = 0
    /\ acc_emitted = 0
    /\ sq_stream = "Payments"
    /\ sq_state = <<>>
    /\ sq_provider = [pages |-> 1, last |-> "absent"]
    /\ sq_token = <<>>
    /\ sq_pc = "request"
    /\ sq_served = <<>>
    /\ lastRequest = NoRequest
    /\ lastSend = NoSend
    /\ snap_state = EmptyMap
    /\ snap_value = EmptyMap
    /\ snap_restored = EmptyMap
    /\ snap_pc = "live"
    /\ md_stream = "Media"
    /\ md_fields = {}
    /\ md_feed = <<>>
    /\ md_acct = 1
    /\ md_page = 1
    /\ md_pos = 1
    /\ md_pc = "account"
    /\ md_log = <<>>
    /\ md_last = NoItem
    /\ us_start = 0
    /\ us_state = <<>>
    /\ us_records = <<>>
    /\ cc_sandbox = FALSE
    /\ cc_log = <<>>
    /\ lastCheck = NoCheck

NextUrl ==
    \/ ClearUrl
    \/ StreamClearUrl

SpecUrl == InitUrl /\ [][NextUrl]_vars

\* The merge of the metric entries of one window into one record
InitMerge ==
    /\ state = EmptyMap
    /\ ui_pc = "init"
    /\ account_idx = 1
    /\ buffered_start_date = 0
    /\ start_date = Now
    /\ lastFilter = NoFilter
    /\ provider = AnyProvider
    /\ run = 1
    /\ seen = {}
    /\ fresh = {}
    /\ lastWindow = NoWindow
    /\ run_start = EmptyMap
    /\ last_emitted = EmptyMap
    /\ pages = <<>>
    /\ loaded = 0
    /\ queue = <<>>
    /\ finished = FALSE
    /\ qpos = 0
    /\ pg_pc = "new"
    /\ consumed = <<>>
    /\ outer_tries = 0
    /\ inner_tries = 0
    /\ backoffs = 0
    /\ transport_calls = 0
    /\ lastAttempt = NoAttempt
    /\ lastCall = NoCall
    /\ headers = OneHeader(HeaderNames[1], HAbsent)
    /\ parsed = NoParse
    /\ url_orig = NoUrlRecord
    /\ url_record = NoUrlRecord
    /\ url_first = NoUrlRecord
    /\ url_steps = 0
    /\ url_raised = FALSE
    /\ url_impl = "none"
    /\ merge_list \in MergeLists
    /\ merge_record = EmptyMap
    /\ ins_stream = "media"
    /\ ins_impl = "streams"
    /\ ins_items = <<>>
    /\ ins_acct = 1
    /\ ins_idx = 1
    /\ ins_pc = "list"
    /\ ins_tries = 0
    /\ ins_backoffs = 0
    /\ ins_emitted = <<>>
    /\ lastInsight = NoInsight
    /\ acc_pages = <<>>
    /\ acc_pc = "idle"
    /\ acc_i = 1
    /\ acc_found = <<>>
    /\ acc_exc = "none"
    /\ acc_stream = 1
    /\ acc_data_calls = 0
    /\ acc_emitted = 0
    /\ sq_stream = "Payments"
    /\ sq_state = <<>>
    /\ sq_provider = [pages |-> 1, last |-> "absent"]
    /\ sq_token = <<>>
    /\ sq_pc = "request"
    /\ sq_served = <<>>
    /\ lastRequest = NoRequest
    /\ lastSend = NoSend
    /\ snap_state = EmptyMap
    /\ snap_value = EmptyMap
    /\ snap_restored = EmptyMap
    /\ snap_pc = "live"
    /\ md_stream = "Media"
    /\ md_fields = {}
    /\ md_feed = <<>>
    /\ md_acct = 1
    /\ md_page = 1
    /\ md_pos = 1
    /\ md_pc = "account"
    /\ md_log = <<>>
    /\ md_last = NoItem
    /\ us_start = 0
    /\ us_state = <<>>
    /\ us_records = <<>>
    /\ cc_sandbox = FALSE
    /\ cc_log = <<>>
    /\ lastCheck = NoCheck

NextMerge == Merge

SpecMerge == InitMerge /\ [][NextMerge]_vars

\* MediaInsights.list or StoriesInsights.list over the connected accounts
InitInsights ==
    /\ state = EmptyMap
    /\ ui_pc = "init"
    /\ account_idx = 1
    /\ buffered_start_date = 0
    /\ start_date = Now
    /\ lastFilter = NoFilter
    /\ provider = AnyProvider
    /\ run = 1
    /\ seen = {}
    /\ fresh = {}
    /\ lastWindow = NoWindow
    /\ run_start = EmptyMap
    /\ last_emitted = EmptyMap
    /\ pages = <<>>
    /\ loaded = 0
    /\ queue = <<>>
    /\ finished = FALSE
    /\ qpos = 0
    /\ pg_pc = "new"
    /\ consumed = <<>>
    /\ outer_tries = 0
    /\ inner_tries = 0
    /\ backoffs = 0
    /\ transport_calls = 0
    /\ lastAttempt = NoAttempt
    /\ lastCall = NoCall
    /\ headers = OneHeader(HeaderNames[1], HAbsent)
    /\ parsed = NoParse
    /\ url_orig = NoUrlRecord
    /\ url_record = NoUrlRecord
    /\ url_first = NoUrlRecord
    /\ url_steps = 0
    /\ url_raised = FALSE
    /\ url_impl = "none"
    /\ merge_list = <<>>
    /\ merge_record = EmptyMap
    /\ ins_stream \in {"media", "stories"}
    /\ ins_impl \in IF ins_stream = "media" THEN {"streams"} ELSE {"streams", "client"}
    /\ ins_items \in ProviderItems(ins_stream)
    /\ ins_acct = 1
    /\ ins_idx = 1
    /\ ins_pc = "list"
    /\ ins_tries = 0
    /\ ins_backoffs = 0
    /\ ins_emitted = <<>>
    /\ lastInsight = NoInsight
    /\ acc_pages = <<>>
    /\ acc_pc = "idle"
    /\ acc_i = 1
    /\ acc_found = <<>>
    /\ acc_exc = "none"
    /\ acc_stream = 1
    /\ acc_data_calls = 0
    /\ acc_emitted = 0
    /\ sq_stream = "Payments"
    /\ sq_state = <<>>
    /\ sq_provider = [pages |-> 1, last |-> "absent"]
    /\ sq_token = <<>>
    /\ sq_pc = "request"
    /\ sq_served = <<>>
    /\ lastRequest = NoRequest
    /\ lastSend = NoSend
    /\ snap_state = EmptyMap
    /\ snap_value = EmptyMap
    /\ snap_restored = EmptyMap
    /\ snap_pc = "live"
    /\ md_stream = "Media"
    /\ md_fields = {}
    /\ md_feed = <<>>
    /\ md_acct = 1
    /\ md_page = 1
    /\ md_pos = 1
    /\ md_pc = "account"
    /\ md_log = <<>>
    /\ md_last = NoItem
    /\ us_start = 0
    /\ us_state = <<>>
    /\ us_records = <<>>
    /\ cc_sandbox = FALSE
    /\ cc_log = <<>>
    /\ lastCheck = NoCheck

NextInsights ==
    \/ InsightsReturned
    \/ InsightsError
    \/ NextInsightAccount
    \/ InsightsDone
    \/ StoriesReadRecordsFails

SpecInsights == InitInsights /\ [][NextInsights]_vars

\* Streams reading through InstagramAPI.accounts, which discovers the accounts once
InitAccounts ==
    /\ state = EmptyMap
    /\ ui_pc = "init"
    /\ account_idx = 1
    /\ buffered_start_date = 0
    /\ start_date = Now
    /\ lastFilter = NoFilter
    /\ provider = AnyProvider
    /\ run = 1
    /\ seen = {}
    /\ fresh = {}
    /\ lastWindow = NoWindow
    /\ run_start = EmptyMap
    /\ last_emitted = EmptyMap
    /\ pages = <<>>
    /\ loaded = 0
    /\ queue = <<>>
    /\ finished = FALSE
    /\ qpos = 0
    /\ pg_pc = "new"
    /\ consumed = <<>>
    /\ outer_tries = 0
    /\ inner_tries = 0
    /\ backoffs = 0
    /\ transport_calls = 0
    /\ lastAttempt = NoAttempt
    /\ lastCall = NoCall
    /\ headers = OneHeader(HeaderNames[1], HAbsent)
    /\ parsed = NoParse
    /\ url_orig = NoUrlRecord
    /\ url_record = NoUrlRecord
    /\ url_first = NoUrlRecord
    /\ url_steps = 0
    /\ url_raised = FALSE
    /\ url_impl = "none"
    /\ merge_list = <<>>
    /\ merge_record = EmptyMap
    /\ ins_stream = "media"
    /\ ins_impl = "streams"
    /\ ins_items = <<>>
    /\ ins_acct = 1
    /\ ins_idx = 1
    /\ ins_pc = "list"
    /\ ins_tries = 0
    /\ ins_backoffs = 0
    /\ ins_emitted = <<>>
    /\ lastInsight = NoInsight
    /\ acc_pages \in UNION {[1..n -> BOOLEAN] : n \in 0..MaxUserPages}
    /\ acc_pc = "idle"
    /\ acc_i = 1
    /\ acc_found = <<>>
    /\ acc_exc = "none"
    /\ acc_stream = 1
    /\ acc_data_calls = 0
    /\ acc_emitted = 0
    /\ sq_stream = "Payments"
    /\ sq_state = <<>>
    /\ sq_provider = [pages |-> 1, last |-> "absent"]
    /\ sq_token = <<>>
    /\ sq_pc = "request"
    /\ sq_served = <<>>
    /\ lastRequest = NoRequest
    /\ lastSend = NoSend
    /\ snap_state = EmptyMap
    /\ snap_value = EmptyMap
    /\ snap_restored = EmptyMap
    /\ snap_pc = "live"
    /\ md_stream = "Media"
    /\ md_fields = {}
    /\ md_feed = <<>>
    /\ md_acct = 1
    /\ md_page = 1
    /\ md_pos = 1
    /\ md_pc = "account"
    /\ md_log = <<>>
    /\ md_last = NoItem
    /\ us_start = 0
    /\ us_state = <<>>
    /\ us_records = <<>>
    /\ cc_sandbox = FALSE
    /\ cc_log = <<>>
    /\ lastCheck = NoCheck

NextAccounts ==
    \/ StreamBegins
    \/ GetAccountsOk
    \/ GetAccountsError
    \/ PageGetOk
    \/ PageGetError
    \/ FindAccountsEnds
    \/ DataFetch
    \/ StreamEnds

SpecAccounts == InitAccounts /\ [][NextAccounts]_vars

\* One read of a Square stream: requests, responses, page tokens
InitSquare ==
    /\ state = EmptyMap
    /\ ui_pc = "init"
    /\ account_idx = 1
    /\ buffered_start_date = 0
    /\ start_date = Now
    /\ lastFilter = NoFilter
    /\ provider = AnyProvider
    /\ run = 1
    /\ seen = {}
    /\ fresh = {}
    /\ lastWindow = NoWindow
    /\ run_start = EmptyMap
    /\ last_emitted = EmptyMap
    /\ pages = <<>>
    /\ loaded = 0
    /\ queue = <<>>
    /\ finished = FALSE
    /\ qpos = 0
    /\ pg_pc = "new"
    /\ consumed = <<>>
    /\ outer_tries = 0
    /\ inner_tries = 0
    /\ backoffs = 0
    /\ transport_calls = 0
    /\ lastAttempt = NoAttempt
    /\ lastCall = NoCall
    /\ headers = OneHeader(HeaderNames[1], HAbsent)
    /\ parsed = NoParse
    /\ url_orig = NoUrlRecord
    /\ url_record = NoUrlRecord
    /\ url_first = NoUrlRecord
    /\ url_steps = 0
    /\ url_raised = FALSE
    /\ url_impl = "none"
    /\ merge_list = <<>>
    /\ merge_record = EmptyMap
    /\ ins_stream = "media"
    /\ ins_impl = "streams"
    /\ ins_items = <<>>
    /\ ins_acct = 1
    /\ ins_idx = 1
    /\ ins_pc = "list"
    /\ ins_tries = 0
    /\ ins_backoffs = 0
    /\ ins_emitted = <<>>
    /\ lastInsight = NoInsight
    /\ acc_pages = <<>>
    /\ acc_pc = "idle"
    /\ acc_i = 1
    /\ acc_found = <<>>
    /\ acc_exc = "none"
    /\ acc_stream = 1
    /\ acc_data_calls = 0
    /\ acc_emitted = 0
    /\ sq_stream \in SquareStreams
    /\ sq_state \in {<<>>, <<"2021-06-14">>}
    /\ sq_provider \in SquareProviders
    /\ sq_token = <<>>
    /\ sq_pc = "request"
    /\ sq_served = <<>>
    /\ lastRequest = NoRequest
    /\ lastSend = NoSend
    /\ snap_state = EmptyMap
    /\ snap_value = EmptyMap
    /\ snap_restored = EmptyMap
    /\ snap_pc = "live"
    /\ md_stream = "Media"
    /\ md_fields = {}
    /\ md_feed = <<>>
    /\ md_acct = 1
    /\ md_page = 1
    /\ md_pos = 1
    /\ md_pc = "account"
    /\ md_log = <<>>
    /\ md_last = NoItem
    /\ us_start = 0
    /\ us_state = <<>>
    /\ us_records = <<>>
    /\ cc_sandbox = FALSE
    /\ cc_log = <<>>
    /\ lastCheck = NoCheck

NextSquare ==
    \/ SquareResponse
    \/ SquareHttpError

SpecSquare == InitSquare /\ [][NextSquare]_vars

\* The watermark snapshot: the state getter, then the state setter
InitSnapshot ==
    /\ state = EmptyMap
    /\ ui_pc = "init"
    /\ account_idx = 1
    /\ buffered_start_date = 0
    /\ start_date = Now
    /\ lastFilter = NoFilter
    /\ provider = AnyProvider
    /\ run = 1
    /\ seen = {}
    /\ fresh = {}
    /\ lastWindow = NoWindow
    /\ run_start = EmptyMap
    /\ last_emitted = EmptyMap
    /\ pages = <<>>
    /\ loaded = 0
    /\ queue = <<>>
    /\ finished = FALSE
    /\ qpos = 0
    /\ pg_pc = "new"
    /\ consumed = <<>>
    /\ outer_tries = 0
    /\ inner_tries = 0
    /\ backoffs = 0
    /\ transport_calls = 0
    /\ lastAttempt = NoAttempt
    /\ lastCall = NoCall
    /\ headers = OneHeader(HeaderNames[1], HAbsent)
    /\ parsed = NoParse
    /\ url_orig = NoUrlRecord
    /\ url_record = NoUrlRecord
    /\ url_first = NoUrlRecord
    /\ url_steps = 0
    /\ url_raised = FALSE
    /\ url_impl = "none"
    /\ merge_list = <<>>
    /\ merge_record = EmptyMap
    /\ ins_stream = "media"
    /\ ins_impl = "streams"
    /\ ins_items = <<>>
    /\ ins_acct = 1
    /\ ins_idx = 1
    /\ ins_pc = "list"
    /\ ins_tries = 0
    /\ ins_backoffs = 0
    /\ ins_emitted = <<>>
    /\ lastInsight = NoInsight
    /\ acc_pages = <<>>
    /\ acc_pc = "idle"
    /\ acc_i = 1
    /\ acc_found = <<>>
    /\ acc_exc = "none"
    /\ acc_stream = 1
    /\ acc_data_calls = 0
    /\ acc_emitted = 0
    /\ sq_stream = "Payments"
    /\ sq_state = <<>>
    /\ sq_provider = [pages |-> 1, last |-> "absent"]
    /\ sq_token = <<>>
    /\ sq_pc = "request"
    /\ sq_served = <<>>
    /\ lastRequest = NoRequest
    /\ lastSend = NoSend
    /\ snap_state \in WatermarkMaps
    /\ snap_value = EmptyMap
    /\ snap_restored = EmptyMap
    /\ snap_pc = "live"
    /\ md_stream = "Media"
    /\ md_fields = {}
    /\ md_feed = <<>>
    /\ md_acct = 1
    /\ md_page = 1
    /\ md_pos = 1
    /\ md_pc = "account"
    /\ md_log = <<>>
    /\ md_last = NoItem
    /\ us_start = 0
    /\ us_state = <<>>
    /\ us_records = <<>>
    /\ cc_sandbox = FALSE
    /\ cc_log = <<>>
    /\ lastCheck = NoCheck

NextSnapshot ==
    \/ GetState
    \/ RestoreState

SpecSnapshot == InitSnapshot /\ [][NextSnapshot]_vars

\* Media.list and Stories.list: accounts, pages, items, children
InitMedia ==
    /\ state = EmptyMap
    /\ ui_pc = "init"
    /\ account_idx = 1
    /\ buffered_start_date = 0
    /\ start_date = Now
    /\ lastFilter = NoFilter
    /\ provider = AnyProvider
    /\ run = 1
    /\ seen = {}
    /\ fresh = {}
    /\ lastWindow = NoWindow
    /\ run_start = EmptyMap
    /\ last_emitted = EmptyMap
    /\ pages = <<>>
    /\ loaded = 0
    /\ queue = <<>>
    /\ finished = FALSE
    /\ qpos = 0
    /\ pg_pc = "new"
    /\ consumed = <<>>
    /\ outer_tries = 0
    /\ inner_tries = 0
    /\ backoffs = 0
    /\ transport_calls = 0
    /\ lastAttempt = NoAttempt
    /\ lastCall = NoCall
    /\ headers = OneHeader(HeaderNames[1], HAbsent)
    /\ parsed = NoParse
    /\ url_orig = NoUrlRecord
    /\ url_record = NoUrlRecord
    /\ url_first = NoUrlRecord
    /\ url_steps = 0
    /\ url_raised = FALSE
    /\ url_impl = "none"
    /\ merge_list = <<>>
    /\ merge_record = EmptyMap
    /\ ins_stream = "media"
    /\ ins_impl = "streams"
    /\ ins_items = <<>>
    /\ ins_acct = 1
    /\ ins_idx = 1
    /\ ins_pc = "list"
    /\ ins_tries = 0
    /\ ins_backoffs = 0
    /\ ins_emitted = <<>>
    /\ lastInsight = NoInsight
    /\ acc_pages = <<>>
    /\ acc_pc = "idle"
    /\ acc_i = 1
    /\ acc_found = <<>>
    /\ acc_exc = "none"
    /\ acc_stream = 1
    /\ acc_data_calls = 0
    /\ acc_emitted = 0
    /\ sq_stream = "Payments"
    /\ sq_state = <<>>
    /\ sq_provider = [pages |-> 1, last |-> "absent"]
    /\ sq_token = <<>>
    /\ sq_pc = "request"
    /\ sq_served = <<>>
    /\ lastRequest = NoRequest
    /\ lastSend = NoSend
    /\ snap_state = EmptyMap
    /\ snap_value = EmptyMap
    /\ snap_restored = EmptyMap
    /\ snap_pc = "live"
    /\ md_stream \in {"Media", "Stories"}
    /\ md_fields \in FieldSets
    /\ md_feed \in [1..Len(Accounts) -> AccountFeeds]
    /\ md_acct = 1
    /\ md_page = 1
    /\ md_pos = 1
    /\ md_pc = "account"
    /\ md_log = <<>>
    /\ md_last = NoItem
    /\ us_start = 0
    /\ us_state = <<>>
    /\ us_records = <<>>
    /\ cc_sandbox = FALSE
    /\ cc_log = <<>>
    /\ lastCheck = NoCheck

NextMedia ==
    \/ MediaCall
    \/ MediaItem
    \/ MediaNextPage
    \/ MediaNextAccount
    \/ MediaDone

SpecMedia == InitMedia /\ [][NextMedia]_vars

\* get_updated_state applied to the records of a read, one after another
InitSquareState ==
    /\ state = EmptyMap
    /\ ui_pc = "init"
    /\ account_idx = 1
    /\ buffered_start_date = 0
    /\ start_date = Now
    /\ lastFilter = NoFilter
    /\ provider = AnyProvider
    /\ run = 1
    /\ seen = {}
    /\ fresh = {}
    /\ lastWindow = NoWindow
    /\ run_start = EmptyMap
    /\ last_emitted = EmptyMap
    /\ pages = <<>>
    /\ loaded = 0
    /\ queue = <<>>
    /\ finished = FALSE
    /\ qpos = 0
    /\ pg_pc = "new"
    /\ consumed = <<>>
    /\ outer_tries = 0
    /\ inner_tries = 0
    /\ backoffs = 0
    /\ transport_calls = 0
    /\ lastAttempt = NoAttempt
    /\ lastCall = NoCall
    /\ headers = OneHeader(HeaderNames[1], HAbsent)
    /\ parsed = NoParse
    /\ url_orig = NoUrlRecord
    /\ url_record = NoUrlRecord
    /\ url_first = NoUrlRecord
    /\ url_steps = 0
    /\ url_raised = FALSE
    /\ url_impl = "none"
    /\ merge_list = <<>>
    /\ merge_record = EmptyMap
    /\ ins_stream = "media"
    /\ ins_impl = "streams"
    /\ ins_items = <<>>
    /\ ins_acct = 1
    /\ ins_idx = 1
    /\ ins_pc = "list"
    /\ ins_tries = 0
    /\ ins_backoffs = 0
    /\ ins_emitted = <<>>
    /\ lastInsight = NoInsight
    /\ acc_pages = <<>>
    /\ acc_pc = "idle"
    /\ acc_i = 1
    /\ acc_found = <<>>
    /\ acc_exc = "none"
    /\ acc_stream = 1
    /\ acc_data_calls = 0
    /\ acc_emitted = 0
    /\ sq_stream = "Payments"
    /\ sq_state = <<>>
    /\ sq_provider = [pages |-> 1, last |-> "absent"]
    /\ sq_token = <<>>
    /\ sq_pc = "request"
    /\ sq_served = <<>>
    /\ lastRequest = NoRequest
    /\ lastSend = NoSend
    /\ snap_state = EmptyMap
    /\ snap_value = EmptyMap
    /\ snap_restored = EmptyMap
    /\ snap_pc = "live"
    /\ md_stream = "Media"
    /\ md_fields = {}
    /\ md_feed = <<>>
    /\ md_acct = 1
    /\ md_page = 1
    /\ md_pos = 1
    /\ md_pc = "account"
    /\ md_log = <<>>
    /\ md_last = NoItem
    /\ us_start \in 0..MaxCursor
    /\ us_state = <<>>
    /\ us_records = <<>>
    /\ cc_sandbox = FALSE
    /\ cc_log = <<>>
    /\ lastCheck = NoCheck

NextSquareState == UpdateState

SpecSquareState == InitSquareState /\ [][NextSquareState]_vars

\* check_connection called a few times against either host
InitCheck ==
    /\ state = EmptyMap
    /\ ui_pc = "init"
    /\ account_idx = 1
    /\ buffered_start_date = 0
    /\ start_date = Now
    /\ lastFilter = NoFilter
    /\ provider = AnyProvider
    /\ run = 1
    /\ seen = {}
    /\ fresh = {}
    /\ lastWindow = NoWindow
    /\ run_start = EmptyMap
    /\ last_emitted = EmptyMap
    /\ pages = <<>>
    /\ loaded = 0
    /\ queue = <<>>
    /\ finished = FALSE
    /\ qpos = 0
    /\ pg_pc = "new"
    /\ consumed = <<>>
    /\ outer_tries = 0
    /\ inner_tries = 0
    /\ backoffs = 0
    /\ transport_calls = 0
    /\ lastAttempt = NoAttempt
    /\ lastCall = NoCall
    /\ headers = OneHeader(HeaderNames[1], HAbsent)
    /\ parsed = NoParse
    /\ url_orig = NoUrlRecord
    /\ url_record = NoUrlRecord
    /\ url_first = NoUrlRecord
    /\ url_steps = 0
    /\ url_raised = FALSE
    /\ url_impl = "none"
    /\ merge_list = <<>>
    /\ merge_record = EmptyMap
    /\ ins_stream = "media"
    /\ ins_impl = "streams"
    /\ ins_items = <<>>
    /\ ins_acct = 1
    /\ ins_idx = 1
    /\ ins_pc = "list"
    /\ ins_tries = 0
    /\ ins_backoffs = 0
    /\ ins_emitted = <<>>
    /\ lastInsight = NoInsight
    /\ acc_pages = <<>>
    /\ acc_pc = "idle"
    /\ acc_i = 1
    /\ acc_found = <<>>
    /\ acc_exc = "none"
    /\ acc_stream = 1
    /\ acc_data_calls = 0
    /\ acc_emitted = 0
    /\ sq_stream = "Payments"
    /\ sq_state = <<>>
    /\ sq_provider = [pages |-> 1, last |-> "absent"]
    /\ sq_token = <<>>
    /\ sq_pc = "request"
    /\ sq_served = <<>>
    /\ lastRequest = NoRequest
    /\ lastSend = NoSend
    /\ snap_state = EmptyMap
    /\ snap_value = EmptyMap
    /\ snap_restored = EmptyMap
    /\ snap_pc = "live"
    /\ md_stream = "Media"
    /\ md_fields = {}
    /\ md_feed = <<>>
    /\ md_acct = 1
    /\ md_page = 1
    /\ md_pos = 1
    /\ md_pc = "account"
    /\ md_log = <<>>
    /\ md_last = NoItem
    /\ us_start = 0
    /\ us_state = <<>>
    /\ us_records = <<>>
    /\ cc_sandbox \in BOOLEAN
    /\ cc_log = <<>>
    /\ lastCheck = NoCheck

NextCheck == CheckConnection

SpecCheck == InitCheck /\ [][NextCheck]_vars

====
